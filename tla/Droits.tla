------------------------------- MODULE Droits -------------------------------
(****************************************************************************)
(* Who may call what: the permissions the migrations grant to each role,    *)
(* the guard of every route, the portals of the web front end and what each *)
(* of its pages asks of the API.                                            *)
(****************************************************************************)
EXTENDS Naturals

\* What the migrations insert into role_permissions; SUPER_ADMIN has them all.
PermissionsDe == [
  PME |-> {"company.own.read", "company.own.update", "application.own.create",
           "application.own.read", "application.own.update", "application.own.submit",
           "document.own.upload", "document.own.read", "notification.read", "program.read"},
  AGENT_FODIP |-> {"company.read", "company.update", "application.read",
           "application.review", "document.read", "document.verify", "scoring.read",
           "scoring.calculate", "notification.read", "program.read", "program.propose"},
  ANALYSTE |-> {"dashboard.read", "company.read", "application.read", "financing.read",
           "impact.read", "notification.read", "reconciliation.read", "program.read",
           "program.propose"},
  COMITE_FINANCEMENT |-> {"application.read", "scoring.read", "decision.create",
           "notification.read", "program.read"},
  DIRECTION_FODIP |-> {"dashboard.read", "company.read", "application.read",
           "financing.read", "impact.read", "financing.manage", "disbursement.manage",
           "repayment.manage", "impact.manage", "audit.read", "notification.read",
           "reconciliation.read", "reconciliation.manage", "program.read",
           "program.manage", "program.approve", "program.propose"},
  AUDITEUR |-> {"audit.read", "financing.read", "impact.read", "notification.read",
           "reconciliation.read", "program.read"},
  PARTENAIRE_BANCAIRE |-> {"partner.application.read", "partner.disbursement.create",
           "partner.repayment.create"}]

RolesConnus == DOMAIN PermissionsDe \cup {"SUPER_ADMIN"}
permissions(roles) ==
  IF "SUPER_ADMIN" \in roles
  THEN (UNION {PermissionsDe[r] : r \in DOMAIN PermissionsDe})
       \cup {"user.manage", "role.read", "communications.reminders.run"}
  ELSE UNION {PermissionsDe[r] : r \in roles}

------------------------------------------------------------------------------
(* The controllers: each route with the roles and the permissions its        *)
(* decorators ask.                                                           *)

Garde(route, roles, ps) == [route |-> route, roles |-> roles, permissions |-> ps]
Gardes(routes, roles, ps) == {Garde(r, roles, ps) : r \in routes}

AdministrationController ==
  Gardes({"users", "summary", "users/:id", "reset-password", "reset-mfa",
          "enterprises", "partner-banks"}, {"SUPER_ADMIN"}, {"user.manage"})
  \cup Gardes({"administration/audit"}, {"SUPER_ADMIN"}, {"audit.read"})
  \cup Gardes({"roles"}, {"SUPER_ADMIN"}, {"role.read"})

DataRightsController ==
  Gardes({"export"}, {}, {}) \cup Gardes({"anonymize"}, {"SUPER_ADMIN"}, {"user.manage"})

LesAgents == {"AGENT_FODIP", "SUPER_ADMIN"}

AgentApplicationsController ==
  Gardes({"agent/applications", "agent/summary", "agent/:id"}, LesAgents, {"application.read"})
  \cup Gardes({"agent/claim", "agent/review"}, LesAgents, {"application.review"})

ScoringController ==
  Gardes({"scoring"}, LesAgents, {"application.read", "scoring.read"})
  \cup Gardes({"scoring/calculate"}, LesAgents, {"application.review", "scoring.calculate"})

DocumentsController ==
  Gardes({"documents/own"}, {"PME"}, {"document.own.read"})
  \cup Gardes({"documents/upload"}, {"PME"}, {"document.own.upload"})
  \cup Gardes({"documents/review"}, LesAgents, {"document.read"})
  \cup Gardes({"documents/verify"}, LesAgents, {"document.verify"})

LesMembres == {"COMITE_FINANCEMENT", "SUPER_ADMIN"}

CommitteeController ==
  Gardes({"committee/applications", "committee/summary", "committee/:id"},
         LesMembres, {"application.read", "scoring.read"})
  \cup Gardes({"committee/decision"}, LesMembres,
              {"application.read", "scoring.read", "decision.create"})

ApplicationsController ==
  Gardes({"applications/me"}, {"PME"}, {"application.own.read"})
  \cup Gardes({"applications/create"}, {"PME"}, {"application.own.create"})
  \cup Gardes({"applications/update"}, {"PME"}, {"application.own.update"})
  \cup Gardes({"applications/submit"}, {"PME"}, {"application.own.submit"})

CompaniesController ==
  Gardes({"companies/me"}, {"PME"}, {"company.own.read"})
  \cup Gardes({"companies/update"}, {"PME"}, {"company.own.update"})

LecteursFinances == {"DIRECTION_FODIP", "ANALYSTE", "AUDITEUR", "SUPER_ADMIN"}

FinancingsController ==
  Gardes({"financings", "financings/:id"}, LecteursFinances, {"financing.read"})
  \cup Gardes({"eligible-applications", "createFromApplication"}, LecteursFinances,
              {"financing.manage"})
  \cup Gardes({"planDisbursement", "executeDisbursement"}, LecteursFinances,
              {"disbursement.manage"})
  \cup Gardes({"createRepayment"}, LecteursFinances, {"repayment.manage"})
  \cup Gardes({"saveImpact"}, LecteursFinances, {"impact.manage"})

ReconciliationsController ==
  Gardes({"reconciliations"}, LecteursFinances, {"reconciliation.read"})
  \cup Gardes({"createEntry", "matchEntry"}, LecteursFinances, {"reconciliation.manage"})

AnalyticsController ==
  Gardes({"dashboard"}, {"DIRECTION_FODIP", "ANALYSTE", "SUPER_ADMIN"}, {"dashboard.read"})

AuditController ==
  Gardes({"audit/logs", "audit/dossiers/:id"}, {"AUDITEUR", "SUPER_ADMIN"}, {"audit.read"})

PartnerController ==
  Gardes({"partner/financings", "partner/dashboard", "partner/operations", "partner/:id"},
         {"PARTENAIRE_BANCAIRE"}, {"partner.application.read"})
  \cup Gardes({"partner/disbursements"}, {"PARTENAIRE_BANCAIRE"}, {"partner.disbursement.create"})
  \cup Gardes({"partner/repayments"}, {"PARTENAIRE_BANCAIRE"}, {"partner.repayment.create"})

ProgramsController ==
  Gardes({"programs"}, {}, {"program.read"})
  \cup Gardes({"programs/management"}, {}, {"program.manage"})
  \cup Gardes({"programs/approve", "programs/activate"}, {}, {"program.approve"})

ProposalsController ==
  Gardes({"programs/references"}, {}, {"program.read"})
  \cup Gardes({"programs/proposals"}, {}, {"program.propose"})

NotificationsController == Gardes({"notifications"}, {}, {"notification.read"})
AuthController == Gardes({"me"}, {}, {})

Routes ==
  AdministrationController \cup DataRightsController \cup AgentApplicationsController
  \cup ScoringController \cup DocumentsController \cup CommitteeController
  \cup ApplicationsController \cup CompaniesController \cup FinancingsController
  \cup ReconciliationsController \cup AnalyticsController \cup AuditController
  \cup PartnerController \cup ProgramsController \cup ProposalsController
  \cup NotificationsController \cup AuthController

\* AuthorizationGuard.canActivate: every permission asked, and one of the roles.
canActivate(roles, route) ==
  \E g \in Routes :
    /\ g.route = route
    /\ g.permissions \subseteq permissions(roles)
    /\ g.roles # {} => g.roles \cap roles # {}

------------------------------------------------------------------------------
(* The portals and their pages.                                              *)

Acces(home, roles, liens) == [homeHref |-> home, allowedRoles |-> roles, liens |-> liens]

\* PORTAL_ACCESS; liens are the navItems of each portal's layout but for the
\* two shared pages.
PORTAL_ACCESS == [
  entrepreneur |-> Acces("/entrepreneur", {"PME"},
    {"/entrepreneur", "/entrepreneur/programmes", "/entrepreneur/entreprise",
     "/entrepreneur/demande", "/entrepreneur/suivi"}),
  agent |-> Acces("/agent/tableau-de-bord", {"AGENT_FODIP", "SUPER_ADMIN"},
    {"/agent/tableau-de-bord", "/agent/dossiers", "/agent/programmes"}),
  comite |-> Acces("/comite/tableau-de-bord", {"COMITE_FINANCEMENT", "SUPER_ADMIN"},
    {"/comite/tableau-de-bord", "/comite/dossiers", "/comite/programmes"}),
  direction |-> Acces("/direction/tableau-de-bord", {"DIRECTION_FODIP", "ANALYSTE", "SUPER_ADMIN"},
    {"/direction/tableau-de-bord", "/direction/programmes", "/direction/financements",
     "/direction/rapprochements"}),
  administration |-> Acces("/administration/tableau-de-bord", {"SUPER_ADMIN"},
    {"/administration/tableau-de-bord", "/administration/utilisateurs",
     "/administration/recuperation", "/administration/journal"}),
  auditeur |-> Acces("/auditeur/tableau-de-bord", {"AUDITEUR", "SUPER_ADMIN"},
    {"/auditeur/tableau-de-bord", "/auditeur/programmes"}),
  partenaire |-> Acces("/partenaire/tableau-de-bord", {"PARTENAIRE_BANCAIRE"},
    {"/partenaire/tableau-de-bord", "/partenaire/financements", "/partenaire/operations"})]

Portails == DOMAIN PORTAL_ACCESS

\* The pages a list leads to.
PagesDeDetail == [
  entrepreneur |-> {"/entrepreneur/suivi/[id]/documents"},
  agent |-> {"/agent/dossiers/[id]"},
  comite |-> {"/comite/dossiers/[id]"},
  direction |-> {"/direction/financements/[id]"},
  administration |-> {},
  auditeur |-> {"/auditeur/financements/[id]", "/auditeur/dossiers/[id]"},
  partenaire |-> {"/partenaire/financements/[id]"}]

PagesDuPortail(p) == PORTAL_ACCESS[p].liens \cup PagesDeDetail[p]
PagesPartagees == {"/notifications", "/mes-donnees", "/profil", "/assistance"}
Pages == (UNION {PagesDuPortail(p) : p \in Portails}) \cup PagesPartagees \cup {"/connexion", "/"}

resolvePortalFromPath(page) == {p \in Portails : page \in PagesDuPortail(p)}
rolesCanAccessPortal(roles, p) == roles \cap PORTAL_ACCESS[p].allowedRoles # {}

ROLE_HOME_PRIORITY == <<
  <<"SUPER_ADMIN", "administration">>, <<"DIRECTION_FODIP", "direction">>,
  <<"ANALYSTE", "direction">>, <<"AGENT_FODIP", "agent">>,
  <<"COMITE_FINANCEMENT", "comite">>, <<"AUDITEUR", "auditeur">>,
  <<"PARTENAIRE_BANCAIRE", "partenaire">>, <<"PME", "entrepreneur">> >>

PremierRole(roles) ==
  CHOOSE i \in DOMAIN ROLE_HOME_PRIORITY :
    /\ ROLE_HOME_PRIORITY[i][1] \in roles
    /\ \A j \in DOMAIN ROLE_HOME_PRIORITY : ROLE_HOME_PRIORITY[j][1] \in roles => i <= j

\* Mutant: the analyst is sent to the administration, which it may not open.
homeDecale(roles) ==
  IF roles = {"ANALYSTE"} THEN {PORTAL_ACCESS.administration.homeHref}
  ELSE IF roles \cap RolesConnus = {} THEN {}
  ELSE {PORTAL_ACCESS[ROLE_HOME_PRIORITY[PremierRole(roles)][2]].homeHref}

\* The home of the first role of the list an account has; none for an account
\* without a role of the list.
resolveRoleHome(roles) ==
  IF roles \cap RolesConnus = {} THEN {}
  ELSE {PORTAL_ACCESS[ROLE_HOME_PRIORITY[PremierRole(roles)][2]].homeHref}
=============================================================================
