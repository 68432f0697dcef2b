---------------------------- MODULE Certificates ----------------------------
(***************************************************************************)
(* The certificate of a node with TLS (node/cert.go, node/lego.go): its    *)
(* two files, the file of the account at the CA, and who writes them.      *)
(* Start requests a certificate if a file is missing; a task renews it     *)
(* (node/task.go).  A run of the task does not look at its context, so it  *)
(* goes on when it is given up after five minutes, and the reload that     *)
(* follows starts the next one at once.  The process may crash anywhere.   *)
(*                                                                         *)
(* A file is truncated and then written.  A pair of certificate and key is *)
(* a member of Pairs; both files of it hold the same one.  The node's      *)
(* files are those of one backend; its account file is shared by all, of   *)
(* which the runs here stand for the others as well.                       *)
(***************************************************************************)
EXTENDS Naturals

CONSTANTS
    Runs,        \* the runs of the renewal task that may exist at a time (a bound)
    Boot,        \* the main loop, in Controller.Start
    Pairs,
    Missing,     \* there is no such file
    Torn,        \* the file holds no whole certificate or key
    None,
    MaxReloads,  \* reloads (a bound)
    MaxCrashes,  \* crashes (a bound)
    MaxFailures  \* failures of the CA or the disk (a bound)

ASSUME NamesAssumption ==
    /\ Boot \notin Runs
    /\ Missing \notin Pairs /\ Torn \notin Pairs /\ None \notin Pairs
    /\ Missing # Torn /\ None # Missing /\ None # Torn /\ None \notin Runs
Writers == Runs \cup {Boot}
Contents == Pairs \cup {Missing, Torn}

(* There is always a pair that no file and no other writer has. *)
ASSUME PairsAssumption ==
    \A c, k \in Contents, hands \in [Writers -> Pairs \cup {None}] :
        (\E w \in Writers : hands[w] = None) =>
            \E p \in Pairs : p \notin {c, k} \cup {hands[w] : w \in Writers}

ASSUME BoundsAssumption == MaxReloads \in Nat /\ MaxCrashes \in Nat /\ MaxFailures \in Nat

VARIABLES
    mode,       \* CertMode: "self" or "acme" (dns, http)
    cert,       \* the certificate file
    key,        \* the key file
    due,        \* the certificate has 30 days left or fewer
    user,       \* the account file: "missing", "torn" or "whole"
    node,       \* "starting", "up" or "down"
    cur,        \* the run the task of the present controller waits for
    pc,         \* where every writer is
    got,        \* the pair it was issued and is about to write
    reloads,
    crashes,
    failures,
    disturbed   \* history: the last write was cut off, or not made alone

files == <<cert, key, due>>
bounds == <<reloads, crashes, failures>>
vars == <<mode, files, user, node, cur, pc, got, bounds, disturbed>>

Issuing == {"account", "register", "save", "obtain"}
Writing == {"writeCert", "openKey", "writeKey"}

TypeOK ==
    /\ mode \in {"self", "acme"}
    /\ cert \in Contents /\ key \in Contents
    /\ due \in BOOLEAN /\ disturbed \in BOOLEAN
    /\ user \in {"missing", "torn", "whole"}
    /\ node \in {"starting", "up", "down"}
    /\ cur \in Runs \cup {None}
    /\ pc \in [Writers -> {"idle", "check", "inspect", "openCert", "load"} \cup Issuing \cup Writing]
    /\ got \in [Writers -> Pairs \cup {None}]
    /\ reloads \in 0..MaxReloads /\ crashes \in 0..MaxCrashes
    /\ failures \in 0..MaxFailures

(* A first start. *)
Init ==
    /\ mode \in {"self", "acme"}
    /\ cert = Missing /\ key = Missing /\ due = FALSE
    /\ user = "missing"
    /\ node = "starting"
    /\ cur = None
    /\ pc = [w \in Writers |-> IF w = Boot THEN "check" ELSE "idle"]
    /\ got = [w \in Writers |-> None]
    /\ reloads = 0 /\ crashes = 0 /\ failures = 0
    /\ disturbed = FALSE

-----------------------------------------------------------------------------
AtWork == {w \in Writers : pc[w] \in Writing}

Go(w, label) == pc' = [pc EXCEPT ![w] = label]

(* The writer is through with it: Boot goes on to AddNode, and a run returns,
   to the loop if that still waits for it. *)
Done(w) ==
    /\ pc' = [pc EXCEPT ![w] = IF w = Boot THEN "load" ELSE "idle"]
    /\ got' = [got EXCEPT ![w] = None]
    /\ cur' = IF cur = w THEN None ELSE cur
    /\ node' = node

(* It returns an error: Start fails, and the backend is skipped; a run only
   logs it. *)
GiveUp(w) ==
    /\ Go(w, "idle")
    /\ got' = [got EXCEPT ![w] = None]
    /\ cur' = IF cur = w THEN None ELSE cur
    /\ node' = IF w = Boot THEN "down" ELSE node

(* A pair that no file and no writer has. *)
Fresh == CHOOSE p \in Pairs : p \notin {cert, key} \cup {got[w] : w \in Writers}

-----------------------------------------------------------------------------
(* Controller.Start *)

(* Mutant: the certificate's file is taken for both. *)
RequestCert_OneFile ==
    /\ pc[Boot] = "check"
    /\ IF cert # Missing
       THEN Go(Boot, "load") /\ UNCHANGED got
       ELSE IF mode = "self"
            THEN Go(Boot, "openCert") /\ got' = [got EXCEPT ![Boot] = Fresh]
            ELSE Go(Boot, "account") /\ UNCHANGED got
    /\ UNCHANGED <<mode, files, user, node, cur, bounds, disturbed>>

(* requestCert: nothing to do if both files exist; otherwise a pair is made or
   asked for. *)
RequestCert ==
    /\ pc[Boot] = "check"
    /\ IF cert # Missing /\ key # Missing
       THEN Go(Boot, "load") /\ UNCHANGED got
       ELSE IF mode = "self"
            THEN Go(Boot, "openCert") /\ got' = [got EXCEPT ![Boot] = Fresh]
            ELSE Go(Boot, "account") /\ UNCHANGED got
    /\ UNCHANGED <<mode, files, user, node, cur, bounds, disturbed>>

(* AddNode reads the files, which fails if one is missing, and the tasks
   start. *)
AddNode ==
    /\ pc[Boot] = "load"
    /\ node' = IF Missing \in {cert, key} THEN "down" ELSE "up"
    /\ Go(Boot, "idle")
    /\ UNCHANGED <<mode, files, user, cur, got, bounds, disturbed>>

(* startTasks starts the renewal at once, and the loop every 24 hours; a
   certificate of one's own is not renewed. *)
Renew(r) ==
    /\ node = "up" /\ mode = "acme"
    /\ cur = None /\ pc[r] = "idle"
    /\ cur' = r
    /\ Go(r, "account")
    /\ UNCHANGED <<mode, files, user, node, got, bounds, disturbed>>

-----------------------------------------------------------------------------
(* NewLego and NewLegoUser *)

LoadUser(w) ==
    /\ pc[w] = "account"
    /\ \/ user = "missing" /\ Go(w, "register")
       \/ user = "whole" /\ Go(w, IF w = Boot THEN "obtain" ELSE "inspect")
    /\ UNCHANGED <<mode, files, user, node, cur, got, bounds, disturbed>>

(* The account is made, and its file opened, ... *)
RegisterUser(w) ==
    /\ pc[w] = "register"
    /\ user' = "torn"
    /\ Go(w, "save")
    /\ UNCHANGED <<mode, files, node, cur, got, bounds, disturbed>>

(* ... and written, from its start.  What another has written there since may
   be longer. *)
SaveUser(w) ==
    /\ pc[w] = "save"
    /\ user' \in IF user = "torn" THEN {"whole"} ELSE {"whole", "torn"}
    /\ Go(w, IF w = Boot THEN "obtain" ELSE "inspect")
    /\ UNCHANGED <<mode, files, node, cur, got, bounds, disturbed>>

(* The account's file does not parse. *)
UserUnreadable(w) ==
    /\ pc[w] = "account"
    /\ user = "torn"
    /\ GiveUp(w)
    /\ UNCHANGED <<mode, files, user, bounds, disturbed>>

(* The CA cannot be reached or refuses, or a file cannot be opened or written. *)
Fail(w) ==
    /\ pc[w] \in Issuing \cup {"openCert"} \cup Writing
    /\ failures < MaxFailures
    /\ failures' = failures + 1
    /\ GiveUp(w)
    /\ disturbed' = (disturbed \/ w \in AtWork)
    /\ UNCHANGED <<mode, files, user, reloads, crashes>>

-----------------------------------------------------------------------------
(* RenewCert, CreateCert and writeCert *)

(* Mutant: a run with nothing to do does not return to the loop. *)
NotDue_Hangs(r) ==
    /\ pc[r] = "inspect"
    /\ cert \notin Pairs \/ ~due
    /\ Go(r, "idle")
    /\ UNCHANGED <<mode, files, user, node, cur, got, bounds, disturbed>>

(* The certificate is not due.  One that does not parse is taken for that. *)
NotDue(r) ==
    /\ pc[r] = "inspect"
    /\ cert \notin Pairs \/ ~due
    /\ Done(r)
    /\ UNCHANGED <<mode, files, user, bounds, disturbed>>

IsDue(r) ==
    /\ pc[r] = "inspect"
    /\ cert \in Pairs /\ due
    /\ Go(r, "obtain")
    /\ UNCHANGED <<mode, files, user, node, cur, got, bounds, disturbed>>

(* The CA issues a certificate for a new key. *)
Obtain(w) ==
    /\ pc[w] = "obtain"
    /\ got' = [got EXCEPT ![w] = Fresh]
    /\ Go(w, "openCert")
    /\ UNCHANGED <<mode, files, user, node, cur, bounds, disturbed>>

(* A file is truncated, or if a self-signed pair is written only created. *)
Opened(content) == IF mode = "self" /\ content # Missing THEN content ELSE Torn

(* A write into a file another has written since is mixed with what that one
   wrote, if it is longer.  A self-signed pair has one writer, and is followed
   by a rest that is not looked at. *)
Written(content, pair) == IF content = Torn \/ mode = "self" THEN {pair} ELSE {pair, Torn}

OpenCert(w) ==
    /\ pc[w] = "openCert"
    /\ cert' = Opened(cert)
    /\ Go(w, "writeCert")
    /\ disturbed' = (AtWork # {})
    /\ UNCHANGED <<mode, key, due, user, node, cur, got, bounds>>

(* Mutants: only the certificate is written; the pair is let go of before the
   key is written. *)
WriteCert_Only(w) ==
    /\ pc[w] = "writeCert"
    /\ cert' \in Written(cert, got[w])
    /\ due' = FALSE
    /\ Done(w)
    /\ UNCHANGED <<mode, key, user, bounds, disturbed>>

WriteCert_LetsGo(w) ==
    /\ pc[w] = "writeCert"
    /\ cert' \in Written(cert, got[w])
    /\ due' = FALSE
    /\ got' = [got EXCEPT ![w] = None]
    /\ Go(w, "openKey")
    /\ UNCHANGED <<mode, key, user, node, cur, bounds, disturbed>>

WriteCert(w) ==
    /\ pc[w] = "writeCert"
    /\ cert' \in Written(cert, got[w])
    /\ due' = FALSE
    /\ Go(w, "openKey")
    /\ UNCHANGED <<mode, key, user, node, cur, got, bounds, disturbed>>

OpenKey(w) ==
    /\ pc[w] = "openKey"
    /\ key' = Opened(key)
    /\ Go(w, "writeKey")
    /\ UNCHANGED <<mode, cert, due, user, node, cur, got, bounds, disturbed>>

WriteKey(w) ==
    /\ pc[w] = "writeKey"
    /\ key' \in Written(key, got[w])
    /\ Done(w)
    /\ UNCHANGED <<mode, cert, due, user, bounds, disturbed>>

-----------------------------------------------------------------------------
(* The environment *)

Ages ==
    /\ mode = "acme"
    /\ cert \in Pairs /\ ~due
    /\ due' = TRUE
    /\ UNCHANGED <<mode, cert, key, user, node, cur, pc, got, bounds, disturbed>>

(* A run was given up, or something else asks for a reload: the controller is
   closed without waiting for its run, and a new one starts. *)
Reload ==
    /\ node # "starting"
    /\ reloads < MaxReloads
    /\ reloads' = reloads + 1
    /\ node' = "starting"
    /\ cur' = None
    /\ Go(Boot, "check")
    /\ UNCHANGED <<mode, files, user, got, crashes, failures, disturbed>>

(* The process ends and is started again; the files stay as they are. *)
Crash ==
    /\ crashes < MaxCrashes
    /\ crashes' = crashes + 1
    /\ node' = "starting"
    /\ cur' = None
    /\ pc' = [w \in Writers |-> IF w = Boot THEN "check" ELSE "idle"]
    /\ got' = [w \in Writers |-> None]
    /\ disturbed' = (disturbed \/ AtWork # {})
    /\ UNCHANGED <<mode, files, user, reloads, failures>>

-----------------------------------------------------------------------------
StartStep == RequestCert \/ AddNode
Look(r) == NotDue(r) \/ IsDue(r)
Account(w) == LoadUser(w) \/ UserUnreadable(w) \/ RegisterUser(w) \/ SaveUser(w)
Write(w) == OpenCert(w) \/ WriteCert(w) \/ OpenKey(w) \/ WriteKey(w)
Work(w) == Account(w) \/ Obtain(w) \/ Write(w)

Next ==
    \/ StartStep
    \/ \E r \in Runs : Renew(r) \/ Look(r)
    \/ \E w \in Writers : Work(w) \/ Fail(w)
    \/ Ages \/ Reload \/ Crash

Spec == Init /\ [][Next]_vars

(* Goroutines run and calls of the CA end; the task's timer fires; a
   certificate grows old.  The CA and the disk do not fail for ever. *)
FairSpec ==
    /\ Spec
    /\ WF_vars(StartStep) /\ WF_vars(Ages)
    /\ WF_vars(\E r \in Runs : Renew(r))
    /\ \A r \in Runs : WF_vars(Look(r))
    /\ \A w \in Writers : WF_vars(Work(w))

-----------------------------------------------------------------------------
(* A crash between the two files of the first certificate is made up for: when
   AddNode reads them both exist, whatever was interrupted before. *)
FilesExistAtStart ==
    pc[Boot] = "load" => cert # Missing /\ key # Missing

(* The key belongs to the certificate, whenever the last write was one of
   somebody who was alone from its beginning to its end. *)
PairIsWhole ==
    AtWork = {} /\ ~disturbed => cert = key

(* A key that does not belong to the certificate does not stay: at the latest
   when that certificate is due both are replaced.  What stays is a
   certificate or an account that does not parse, and a node that did not
   start. *)
Heals ==
    mode = "acme" /\ cert \in Pairs /\ cert # key
        ~> cert = key \/ (cert = Torn /\ AtWork = {}) \/ user = "torn" \/ node = "down"
=============================================================================
