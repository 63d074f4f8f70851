------------------------------- MODULE Comptes -------------------------------
(****************************************************************************)
(* The accounts table and the administrator's commands on it:               *)
(* administration.service / administration.repository, the erasure of       *)
(* data-rights.repository, and the row they share with the sign-in          *)
(* (users.repository, see Sessions).  A command is a transaction of several *)
(* statements at READ COMMITTED; other sessions run between two of them, so *)
(* each statement that reads what a later one relies on is a step.          *)
(****************************************************************************)
EXTENDS Naturals, FiniteSets

CONSTANTS
  Comptes,          \* account ids (an id stands for its e-mail too)
  Entreprises,      \* enterprise ids
  Banques,          \* partner bank ids
  Appels,           \* concurrent administrator requests
  Demandes,         \* the UpdateUserDto bodies considered
  ComptesInitiaux,  \* the rows at the start
  ReferencesInitiales, \* the enterprises and banks known at the start
  Rien,             \* NULL, or a field absent from a DTO
  MaxDemandes       \* bound: administrator requests over the whole behaviour

PRIVILEGED_ROLES == {"SUPER_ADMIN", "DIRECTION_FODIP", "AGENT_FODIP",
                     "ANALYSTE", "COMITE_FINANCEMENT", "AUDITEUR"}
Roles == PRIVILEGED_ROLES \cup {"PME", "PARTENAIRE_BANCAIRE"}

VARIABLES
  compte,      \* utilisateurs joined with its roles and its enterprise
  references,  \* enterprises and banks that exist
  verrou,      \* pg_advisory_xact_lock(80913001): its holder
  ligne,       \* row lock of each account: its holder
  appel,       \* the administrator requests in flight
  demandees    \* requests made so far

comptesVars == <<compte, references, verrou, ligne, appel, demandees>>

Secrets == Nat
Ligne == [existe: BOOLEAN, actif: BOOLEAN, anonymise: BOOLEAN,
          roles: SUBSET Roles, entreprise: Entreprises \cup {Rien},
          banque: Banques \cup {Rien}, version: Nat, mfaRequise: BOOLEAN,
          secret: Secrets \cup {Rien}, confirme: BOOLEAN, pas: Nat]

Demande == [roles: (SUBSET Roles) \cup {Rien}, actif: BOOLEAN \cup {Rien},
            mfa: BOOLEAN \cup {Rien},
            entreprise: Entreprises \cup {Rien, "detacher"},
            banque: Banques \cup {Rien, "detacher"}]

Operations == {"modifier", "motDePasse", "mfa", "anonymiser"}
Etapes == {"libre", "demande", "verrouille", "lu", "compte"}

Appel == [etat: Etapes, op: Operations, acteur: Comptes \cup {Rien},
          cible: Comptes \cup {Rien}, demande: Demandes \cup {Rien}, lu: Ligne]

ASSUME ComptesAssumption ==
  /\ IsFiniteSet(Comptes) /\ Rien \notin Appels \cup Comptes \cup Nat
  /\ Demandes \subseteq Demande /\ Rien \notin Demandes
  /\ ComptesInitiaux \in [Comptes -> Ligne]
  /\ \A c \in Comptes : ComptesInitiaux[c].actif => ComptesInitiaux[c].existe
  /\ \E c \in Comptes : ComptesInitiaux[c].actif /\ "SUPER_ADMIN" \in ComptesInitiaux[c].roles

------------------------------------------------------------------------------
(* Policies.                                                                 *)

requiresMfa(roles) == roles \cap PRIVILEGED_ROLES # {}

\* The scope a set of roles calls for: an enterprise for a PME, a bank for a
\* partner, and neither for anybody else.
validateUserScope(roles, entreprise, banque) ==
  /\ roles # {}
  /\ ("PME" \in roles) <=> (entreprise \in Entreprises)
  /\ ("PARTENAIRE_BANCAIRE" \in roles) <=> (banque \in Banques)

superAdminsActifs ==
  {c \in Comptes : compte[c].actif /\ "SUPER_ADMIN" \in compte[c].roles}

canDeactivateUser(acteur, cible, roles, actifs) ==
  /\ acteur # cible
  /\ "SUPER_ADMIN" \in roles => actifs > 1

referencesConnues(d) ==
  {d.entreprise, d.banque} \ {Rien, "detacher"} \subseteq references

prochainsRoles(d, lu) == IF d.roles = Rien THEN lu.roles ELSE d.roles

\* updateUser checks the scope only when the body names roles.
porteeAdmise(d) == d.roles = Rien \/ validateUserScope(d.roles, d.entreprise, d.banque)

------------------------------------------------------------------------------
LigneVide == [existe |-> FALSE, actif |-> FALSE, anonymise |-> FALSE,
              roles |-> {}, entreprise |-> Rien, banque |-> Rien, version |-> 0,
              mfaRequise |-> FALSE, secret |-> Rien, confirme |-> FALSE, pas |-> 0]

AppelLibre == [etat |-> "libre", op |-> "modifier", acteur |-> Rien,
               cible |-> Rien, demande |-> Rien, lu |-> LigneVide]

ComptesInit ==
  /\ compte = ComptesInitiaux
  /\ references = ReferencesInitiales
  /\ verrou = Rien
  /\ ligne = [c \in Comptes |-> Rien]
  /\ appel = [a \in Appels |-> AppelLibre]
  /\ demandees = 0

\* A request reaches the service.  resetMfa refuses oneself before it reads
\* anything; updateUser refuses a scope that does not fit its roles.
Demander(a, acteur, op, cible, d) ==
  /\ d # Rien <=> op = "modifier"
  /\ appel[a].etat = "libre"
  /\ demandees < MaxDemandes
  /\ demandees' = demandees + 1
  /\ LET refuse == \/ op = "mfa" /\ acteur = cible
                   \/ op = "modifier" /\ ~porteeAdmise(d)
     IN appel' = IF refuse THEN appel ELSE [appel EXCEPT ![a] =
          [etat |-> "demande", op |-> op, acteur |-> acteur, cible |-> cible,
           demande |-> d, lu |-> LigneVide]]
  /\ UNCHANGED <<compte, references, verrou, ligne>>

\* Mutant: the advisory lock is only looked at by one's own transaction.
VerrouLibreToujours == TRUE

VerrouLibre == verrou = Rien

\* update and anonymize first take the transaction-scoped advisory lock.
Verrouiller(a) ==
  /\ appel[a].etat = "demande"
  /\ appel[a].op \in {"modifier", "anonymiser"}
  /\ VerrouLibre
  /\ verrou' = a
  /\ appel' = [appel EXCEPT ![a].etat = "verrouille"]
  /\ UNCHANGED <<compte, references, ligne, demandees>>

\* What the statements up to the target's read may answer.
refuseApresLecture(op, lu, d) ==
  \/ ~lu.existe
  \/ op = "modifier" /\ ~referencesConnues(d)
  \/ op # "modifier" /\ lu.anonymise

\* SELECT ... FOR UPDATE of the target, and the refusals that depend on it:
\* the transaction then ends and gives its locks back.
LireCible(a) ==
  LET c == appel[a].cible
      refus == refuseApresLecture(appel[a].op, compte[c], appel[a].demande)
  IN
  /\ \/ appel[a].etat = "verrouille"
     \/ appel[a].etat = "demande" /\ appel[a].op \in {"motDePasse", "mfa"}
  /\ ligne[c] = Rien
  /\ ligne' = IF refus THEN ligne ELSE [ligne EXCEPT ![c] = a]
  /\ verrou' = IF refus /\ verrou = a THEN Rien ELSE verrou
  /\ appel' = [appel EXCEPT ![a] =
       IF refus THEN AppelLibre
       ELSE [@ EXCEPT !.etat = "lu", !.lu = compte[c]]]
  /\ UNCHANGED <<compte, references, demandees>>

\* Whether the command takes a SUPER_ADMIN, or an account, away.
retire(op, lu, d) ==
  \/ op = "anonymiser"
  \/ op = "modifier" /\ lu.actif /\ d.actif = FALSE
  \/ /\ op = "modifier"
     /\ "SUPER_ADMIN" \in lu.roles /\ "SUPER_ADMIN" \notin prochainsRoles(d, lu)

\* SELECT COUNT(...) of the active super administrators, and the protection.
CompterSuperAdmins(a) ==
  LET ap == appel[a]
      protege == /\ retire(ap.op, ap.lu, ap.demande)
                 /\ ~canDeactivateUser(ap.acteur, ap.cible, ap.lu.roles,
                                       Cardinality(superAdminsActifs))
  IN
  /\ ap.etat = "lu" /\ ap.op \in {"modifier", "anonymiser"}
  /\ appel' = [appel EXCEPT ![a] =
       IF protege THEN AppelLibre
       ELSE [@ EXCEPT !.etat = "compte"]]
  /\ verrou' = IF protege THEN Rien ELSE verrou
  /\ ligne' = IF protege THEN [ligne EXCEPT ![ap.cible] = Rien] ELSE ligne
  /\ UNCHANGED <<compte, references, demandees>>

\* The row each command writes, from the row as it is then.
choisi(v, actuel) ==
  IF v = Rien THEN actuel ELSE IF v = "detacher" THEN Rien ELSE v

ligneModifiee(l, d, lu) ==
  LET roles == prochainsRoles(d, lu) IN
  [l EXCEPT !.actif = IF d.actif = Rien THEN @ ELSE d.actif,
            !.mfaRequise = (IF d.mfa = Rien THEN lu.mfaRequise ELSE d.mfa)
                           \/ requiresMfa(roles),
            !.version = @ + 1, !.roles = roles,
            !.entreprise = choisi(d.entreprise, @),
            !.banque = choisi(d.banque, @)]

ligneMotDePasse(l) == [l EXCEPT !.actif = TRUE, !.version = @ + 1]

ligneSansMfa(l) == [l EXCEPT !.secret = Rien, !.confirme = FALSE, !.pas = 0,
                             !.version = @ + 1]

ligneAnonymisee(l) == [l EXCEPT !.actif = FALSE, !.anonymise = TRUE,
                                !.version = @ + 1]

ligneEcrite(l, ap) ==
  IF ap.op = "modifier" THEN ligneModifiee(l, ap.demande, ap.lu)
  ELSE IF ap.op = "motDePasse" THEN ligneMotDePasse(l)
  ELSE IF ap.op = "mfa" THEN ligneSansMfa(l)
  ELSE ligneAnonymisee(l)

\* The writes, the audit row and COMMIT.
Ecrire(a) ==
  LET ap == appel[a] IN
  /\ \/ ap.etat = "compte"
     \/ ap.etat = "lu" /\ ap.op \in {"motDePasse", "mfa"}
  /\ compte' = [compte EXCEPT ![ap.cible] = ligneEcrite(@, ap)]
  /\ ligne' = [ligne EXCEPT ![ap.cible] = Rien]
  /\ verrou' = IF verrou = a THEN Rien ELSE verrou
  /\ appel' = [appel EXCEPT ![a] = AppelLibre]
  /\ UNCHANGED <<references, demandees>>

\* createUser: INSERT in one transaction that nothing else reads half-done; a
\* known e-mail is a 409, an unknown enterprise or bank a 400.
Creer(a, cible, d) ==
  /\ appel[a].etat = "libre"
  /\ demandees < MaxDemandes
  /\ demandees' = demandees + 1
  /\ LET admis == /\ d.roles # Rien
                  /\ validateUserScope(d.roles, d.entreprise, d.banque)
                  /\ referencesConnues(d)
                  /\ ~compte[cible].existe
     IN compte' = IF ~admis THEN compte ELSE [compte EXCEPT ![cible] =
             [LigneVide EXCEPT !.existe = TRUE, !.actif = TRUE, !.roles = d.roles,
                !.entreprise = choisi(d.entreprise, Rien),
                !.banque = choisi(d.banque, Rien),
                !.mfaRequise = d.mfa = TRUE \/ requiresMfa(d.roles)]]
  /\ UNCHANGED <<references, verrou, ligne, appel>>

\* createEnterprise and createPartnerBank: the UNIQUE code makes a second one a
\* 409.
CreerReference(a, r) ==
  /\ appel[a].etat = "libre"
  /\ demandees < MaxDemandes
  /\ demandees' = demandees + 1
  /\ references' = references \cup {r}
  /\ UNCHANGED <<compte, verrou, ligne, appel>>

\* The steps of a request once it is in flight.
AvancerAppel(a) ==
  Verrouiller(a) \/ LireCible(a) \/ CompterSuperAdmins(a) \/ Ecrire(a)

------------------------------------------------------------------------------
ComptesTypeOK ==
  /\ compte \in [Comptes -> Ligne]
  /\ references \subseteq Entreprises \cup Banques
  /\ verrou \in Appels \cup {Rien}
  /\ ligne \in [Comptes -> Appels \cup {Rien}]
  /\ appel \in [Appels -> Appel]
  /\ demandees \in 0..MaxDemandes

\* The institution is never left without an active SUPER_ADMIN, whatever the
\* administrators do to each other at the same time: the count that protects
\* the last one is read by a statement, the write is another one, and only the
\* advisory lock keeps two such pairs apart.
DernierSuperAdmin == superAdminsActifs # {}
==============================================================================
