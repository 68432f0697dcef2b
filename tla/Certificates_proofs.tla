------------------------ MODULE Certificates_proofs ------------------------
(***************************************************************************)
(* Proofs about Certificates, for any writers and any numbers of reloads,  *)
(* crashes and failures, as long as the CA always has a pair to issue that *)
(* is nowhere yet.                                                         *)
(***************************************************************************)
EXTENDS Certificates, TLAPS

-----------------------------------------------------------------------------
(* Types *)

Holding == {"openCert"} \cup Writing

(* A writer has a pair from when it is issued until both files are written. *)
HasPair == \A w \in Writers : IF pc[w] \in Holding THEN got[w] \in Pairs ELSE got[w] = None
BootIsIdle == node # "starting" => pc[Boot] = "idle"

TypeInv == TypeOK /\ HasPair /\ BootIsIdle

LEMMA FreshIsPair ==
    ASSUME TypeOK, NEW w \in Writers, got[w] = None
    PROVE  Fresh \in Pairs
  <1>1. \E p \in Pairs : p \notin {cert, key} \cup {got[v] : v \in Writers}
        BY PairsAssumption DEF TypeOK
  <1> QED
      BY <1>1 DEF Fresh

(* Every step keeps the types: who asks for a pair has none, so there is one to
   be had. *)
LEMMA TypeStep == TypeInv /\ [Next]_vars => TypeInv'
  <1> SUFFICES ASSUME TypeInv, [Next]_vars PROVE TypeInv'
      OBVIOUS
  <1> USE NamesAssumption, BoundsAssumption
      DEF TypeInv, HasPair, BootIsIdle, TypeOK, Contents, Writers, Holding, Writing, Issuing,
          files, bounds
  <1>1. CASE RequestCert
         BY <1>1, FreshIsPair DEF RequestCert, Go
  <1>2. CASE AddNode
         BY <1>2 DEF AddNode, Go
  <1>3. ASSUME NEW r \in Runs, Renew(r)
         PROVE  TypeInv'
         BY <1>3 DEF Renew, Go
  <1>4. ASSUME NEW r \in Runs, NotDue(r)
         PROVE  TypeInv'
         BY <1>4 DEF NotDue, Done
  <1>5. ASSUME NEW r \in Runs, IsDue(r)
         PROVE  TypeInv'
         BY <1>5 DEF IsDue, Go
  <1>6. ASSUME NEW w \in Writers, LoadUser(w)
         PROVE  TypeInv'
         BY <1>6 DEF LoadUser, Go
  <1>7. ASSUME NEW w \in Writers, RegisterUser(w)
         PROVE  TypeInv'
         BY <1>7 DEF RegisterUser, Go
  <1>8. ASSUME NEW w \in Writers, SaveUser(w)
         PROVE  TypeInv'
         BY <1>8 DEF SaveUser, Go
  <1>9. ASSUME NEW w \in Writers, UserUnreadable(w)
         PROVE  TypeInv'
         BY <1>9 DEF UserUnreadable, GiveUp, Go
  <1>10. ASSUME NEW w \in Writers, Obtain(w)
         PROVE  TypeInv'
         BY <1>10, FreshIsPair DEF Obtain, Go
  <1>11. ASSUME NEW w \in Writers, OpenCert(w)
         PROVE  TypeInv'
         BY <1>11 DEF OpenCert, Go, Opened, AtWork
  <1>12. ASSUME NEW w \in Writers, WriteCert(w)
         PROVE  TypeInv'
         BY <1>12 DEF WriteCert, Go, Written
  <1>13. ASSUME NEW w \in Writers, OpenKey(w)
         PROVE  TypeInv'
         BY <1>13 DEF OpenKey, Go, Opened
  <1>14. ASSUME NEW w \in Writers, WriteKey(w)
         PROVE  TypeInv'
         BY <1>14 DEF WriteKey, Done, Written
  <1>15. ASSUME NEW w \in Writers, Fail(w)
         PROVE  TypeInv'
         BY <1>15 DEF Fail, GiveUp, Go, AtWork
  <1>16. CASE Ages
         BY <1>16 DEF Ages
  <1>17. CASE Reload
         BY <1>17 DEF Reload, Go
  <1>18. CASE Crash
         BY <1>18 DEF Crash, AtWork
  <1>19. CASE UNCHANGED vars
         BY <1>19 DEF vars
  <1> QED
      BY <1>1, <1>2, <1>3, <1>4, <1>5, <1>6, <1>7, <1>8, <1>9, <1>10, <1>11,
         <1>12, <1>13, <1>14, <1>15, <1>16, <1>17, <1>18, <1>19
      DEF Next, StartStep, Look, Account, Write, Work

LEMMA TypeInit == Init => TypeInv
  <1> SUFFICES ASSUME Init PROVE TypeInv
      OBVIOUS
  <1>1. HasPair /\ BootIsIdle
        BY DEF Init, HasPair, BootIsIdle, Holding, Writing
  <1>2. pc \in [Writers -> {"idle", "check", "inspect", "openCert", "load"}
                           \cup Issuing \cup Writing]
        BY DEF Init
  <1>3. reloads \in 0..MaxReloads /\ crashes \in 0..MaxCrashes /\ failures \in 0..MaxFailures
        BY BoundsAssumption DEF Init
  <1> QED
      BY <1>1, <1>2, <1>3 DEF Init, TypeInv, TypeOK, Contents

LEMMA TypeInvariant == Spec => []TypeInv
  BY TypeInit, TypeStep, PTL DEF Spec

(* Type correctness of the certificate, its key and account, and who writes
   them. *)
THEOREM CertificatesTypeCorrect == Spec => []TypeOK
  BY TypeInvariant, PTL DEF TypeInv

-----------------------------------------------------------------------------
(* A file that was once opened stays *)

CertIsThere == \A w \in Writers : pc[w] \in Writing => cert # Missing
KeyIsThere == \A w \in Writers : pc[w] = "writeKey" => key # Missing

FilesInv == CertIsThere /\ KeyIsThere /\ FilesExistAtStart

(* Every step keeps the files that are there. *)
LEMMA FilesStep == TypeInv /\ FilesInv /\ [Next]_vars => FilesInv'
  <1> SUFFICES ASSUME TypeInv, FilesInv, [Next]_vars PROVE FilesInv'
      OBVIOUS
  <1>a. /\ pc \in [Writers -> {"idle", "check", "inspect", "openCert", "load"}
                            \cup Issuing \cup Writing]
        /\ \A w \in Writers : pc[w] \in Writing => got[w] \in Pairs
        /\ Missing \notin Pairs /\ Missing # Torn /\ Boot \in Writers /\ Boot \notin Runs
        /\ Runs \subseteq Writers
      BY NamesAssumption DEF TypeInv, TypeOK, HasPair, Holding, Writing, Writers
  <1> USE DEF FilesInv, CertIsThere, KeyIsThere, FilesExistAtStart, Writing, Issuing, files, bounds
  <1>1. CASE RequestCert
         BY <1>1, <1>a DEF RequestCert, Go
  <1>2. CASE AddNode
         BY <1>2, <1>a DEF AddNode, Go
  <1>3. ASSUME NEW r \in Runs, Renew(r)
         PROVE  FilesInv'
         BY <1>3, <1>a DEF Renew, Go
  <1>4. ASSUME NEW r \in Runs, NotDue(r)
         PROVE  FilesInv'
         BY <1>4, <1>a DEF NotDue, Done
  <1>5. ASSUME NEW r \in Runs, IsDue(r)
         PROVE  FilesInv'
         BY <1>5, <1>a DEF IsDue, Go
  <1>6. ASSUME NEW w \in Writers, LoadUser(w)
         PROVE  FilesInv'
         BY <1>6, <1>a DEF LoadUser, Go
  <1>7. ASSUME NEW w \in Writers, RegisterUser(w)
         PROVE  FilesInv'
         BY <1>7, <1>a DEF RegisterUser, Go
  <1>8. ASSUME NEW w \in Writers, SaveUser(w)
         PROVE  FilesInv'
         BY <1>8, <1>a DEF SaveUser, Go
  <1>9. ASSUME NEW w \in Writers, UserUnreadable(w)
         PROVE  FilesInv'
         BY <1>9, <1>a DEF UserUnreadable, GiveUp, Go
  <1>10. ASSUME NEW w \in Writers, Obtain(w)
         PROVE  FilesInv'
         BY <1>10, <1>a DEF Obtain, Go
  <1>11. ASSUME NEW w \in Writers, OpenCert(w)
         PROVE  FilesInv'
         BY <1>11, <1>a DEF OpenCert, Go, Opened
  <1>12. ASSUME NEW w \in Writers, WriteCert(w)
         PROVE  FilesInv'
         BY <1>12, <1>a DEF WriteCert, Go, Written
  <1>13. ASSUME NEW w \in Writers, OpenKey(w)
         PROVE  FilesInv'
         BY <1>13, <1>a DEF OpenKey, Go, Opened
  <1>14. ASSUME NEW w \in Writers, WriteKey(w)
         PROVE  FilesInv'
         BY <1>14, <1>a DEF WriteKey, Done, Written
  <1>15. ASSUME NEW w \in Writers, Fail(w)
         PROVE  FilesInv'
         BY <1>15, <1>a DEF Fail, GiveUp, Go
  <1>16. CASE Ages
         BY <1>16, <1>a DEF Ages
  <1>17. CASE Reload
         BY <1>17, <1>a DEF Reload, Go
  <1>18. CASE Crash
         BY <1>18, <1>a DEF Crash
  <1>19. CASE UNCHANGED vars
         BY <1>19, <1>a DEF vars
  <1> QED
      BY <1>1, <1>2, <1>3, <1>4, <1>5, <1>6, <1>7, <1>8, <1>9, <1>10, <1>11,
         <1>12, <1>13, <1>14, <1>15, <1>16, <1>17, <1>18, <1>19
      DEF Next, StartStep, Look, Account, Write, Work

LEMMA FilesInit == Init => FilesInv
  BY DEF Init, FilesInv, CertIsThere, KeyIsThere, FilesExistAtStart, Writers, Writing

(* When AddNode reads the files of the first certificate both exist, whatever
   crash or failure interrupted the writing of one. *)
THEOREM CertificatesExistAtStart == Spec => []FilesExistAtStart
  BY TypeInvariant, FilesInit, FilesStep, PTL DEF Spec, FilesInv

-----------------------------------------------------------------------------
(* What one writer alone has written *)

OneAtWork == ~disturbed => \A v, w \in AtWork : v = w
CertIsTorn ==
    ~disturbed => \A w \in Writers : pc[w] = "writeCert" => mode = "self" \/ cert = Torn
CertIsWritten ==
    ~disturbed => \A w \in Writers : pc[w] \in {"openKey", "writeKey"} => cert = got[w]
KeyIsTorn ==
    ~disturbed => \A w \in Writers : pc[w] = "writeKey" => mode = "self" \/ key = Torn

WholeInv == OneAtWork /\ CertIsTorn /\ CertIsWritten /\ KeyIsTorn /\ PairIsWhole

(* Every step keeps what is written, as long as nobody else writes. *)
LEMMA WholeStep == TypeInv /\ WholeInv /\ [Next]_vars => WholeInv'
  <1> SUFFICES ASSUME TypeInv, WholeInv, [Next]_vars PROVE WholeInv'
      OBVIOUS
  <1>a. /\ pc \in [Writers -> {"idle", "check", "inspect", "openCert", "load"}
                            \cup Issuing \cup Writing]
        /\ got \in [Writers -> Pairs \cup {None}]
        /\ Boot \in Writers /\ Boot \notin Runs /\ Runs \subseteq Writers
        /\ node # "starting" => pc[Boot] = "idle"
      BY NamesAssumption DEF TypeInv, TypeOK, BootIsIdle, Writers
  <1> USE DEF WholeInv, OneAtWork, CertIsTorn, CertIsWritten, KeyIsTorn, PairIsWhole, AtWork,
              Writing, Issuing, files, bounds
  <1>1. CASE RequestCert
         BY <1>1, <1>a DEF RequestCert, Go
  <1>2. CASE AddNode
         BY <1>2, <1>a DEF AddNode, Go
  <1>3. ASSUME NEW r \in Runs, Renew(r)
         PROVE  WholeInv'
         BY <1>3, <1>a DEF Renew, Go
  <1>4. ASSUME NEW r \in Runs, NotDue(r)
         PROVE  WholeInv'
         BY <1>4, <1>a DEF NotDue, Done
  <1>5. ASSUME NEW r \in Runs, IsDue(r)
         PROVE  WholeInv'
         BY <1>5, <1>a DEF IsDue, Go
  <1>6. ASSUME NEW w \in Writers, LoadUser(w)
         PROVE  WholeInv'
         BY <1>6, <1>a DEF LoadUser, Go
  <1>7. ASSUME NEW w \in Writers, RegisterUser(w)
         PROVE  WholeInv'
         BY <1>7, <1>a DEF RegisterUser, Go
  <1>8. ASSUME NEW w \in Writers, SaveUser(w)
         PROVE  WholeInv'
         BY <1>8, <1>a DEF SaveUser, Go
  <1>9. ASSUME NEW w \in Writers, UserUnreadable(w)
         PROVE  WholeInv'
         BY <1>9, <1>a DEF UserUnreadable, GiveUp, Go
  <1>10. ASSUME NEW w \in Writers, Obtain(w)
         PROVE  WholeInv'
         BY <1>10, <1>a DEF Obtain, Go
  <1>11. ASSUME NEW w \in Writers, OpenCert(w)
         PROVE  WholeInv'
         BY <1>11, <1>a DEF OpenCert, Go, Opened
  <1>12. ASSUME NEW w \in Writers, WriteCert(w)
         PROVE  WholeInv'
         BY <1>12, <1>a DEF WriteCert, Go, Written
  <1>13. ASSUME NEW w \in Writers, OpenKey(w)
         PROVE  WholeInv'
         BY <1>13, <1>a DEF OpenKey, Go, Opened
  <1>14. ASSUME NEW w \in Writers, WriteKey(w)
         PROVE  WholeInv'
         BY <1>14, <1>a DEF WriteKey, Done, Written
  <1>15. ASSUME NEW w \in Writers, Fail(w)
         PROVE  WholeInv'
         BY <1>15, <1>a DEF Fail, GiveUp, Go
  <1>16. CASE Ages
         BY <1>16, <1>a DEF Ages
  <1>17. CASE Reload
         BY <1>17, <1>a DEF Reload, Go
  <1>18. CASE Crash
         BY <1>18, <1>a DEF Crash
  <1>19. CASE UNCHANGED vars
         BY <1>19, <1>a DEF vars
  <1> QED
      BY <1>1, <1>2, <1>3, <1>4, <1>5, <1>6, <1>7, <1>8, <1>9, <1>10, <1>11,
         <1>12, <1>13, <1>14, <1>15, <1>16, <1>17, <1>18, <1>19
      DEF Next, StartStep, Look, Account, Write, Work

LEMMA WholeInit == Init => WholeInv
  BY NamesAssumption
  DEF Init, WholeInv, OneAtWork, CertIsTorn, CertIsWritten, KeyIsTorn, PairIsWhole, AtWork,
      Writing

(* The key belongs to the certificate whenever the last write was one of
   somebody who was alone from its beginning to its end. *)
THEOREM CertificatesPairIsWhole == Spec => []PairIsWhole
  BY TypeInvariant, WholeInit, WholeStep, PTL DEF Spec, WholeInv
=============================================================================
