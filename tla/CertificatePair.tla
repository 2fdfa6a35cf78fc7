-------------------------- MODULE CertificatePair ---------------------------
(***************************************************************************)
(* EnsureManagementTLSCertFiles: the certificate and the key with which    *)
(* the management service speaks TLS.  The daemon calls it as it starts,   *)
(* tinycloud env terraform in a process of its own; nothing locks the two  *)
(* files and nothing compares them.                                        *)
(*                                                                         *)
(* A step is one operation on one file.  A pair is the number of the call  *)
(* that has generated it.  A write that fails is taken to leave the file   *)
(* emptied.                                                                *)
(***************************************************************************)
EXTENDS Naturals

CONSTANT Processes

VARIABLES
  cert, key,  \* the files
  ensure,     \* per process, where its call is
  mine,       \* per process, the pair that its call has generated, or 0
  pairs,      \* number of pairs generated
  \* history, read by no guard
  overlap,    \* whether two calls have ever been in progress at a time
  spoiled     \* whether a call was ever cut, or has failed, in the middle of
              \* a file while both files were there

vars == <<cert, key, ensure, mine, pairs, overlap, spoiled>>

Absent == [state |-> "absent"]
Torn == [state |-> "torn"]
Of(pair) == [state |-> "whole", pair |-> pair]

At(p, place) == ensure[p] = place

Goto(p, place) == ensure' = [ensure EXCEPT ![p] = place]

(* The call is over, or its process is. *)
Clear(p) == Goto(p, "idle") /\ mine' = [mine EXCEPT ![p] = 0]

Calling(p) == ensure[p] \notin {"idle", "done", "failed"}

Init ==
  /\ cert = Absent /\ key = Absent
  /\ ensure = [p \in Processes |-> "idle"] /\ mine = [p \in Processes |-> 0]
  /\ pairs = 0
  /\ overlap = FALSE /\ spoiled = FALSE

Begin(p) ==
  /\ At(p, "idle")
  /\ Goto(p, "stat cert")
  /\ overlap' = (overlap \/ \E q \in Processes \ {p} : Calling(q))
  /\ UNCHANGED <<cert, key, mine, pairs, spoiled>>

(* Faulty variant: a certificate is taken to come with its key. *)
StatCertOnly(p) ==
  /\ At(p, "stat cert")
  /\ Goto(p, IF cert # Absent THEN "done" ELSE "generate")
  /\ UNCHANGED <<cert, key, mine, pairs, overlap, spoiled>>

StatCert(p) ==
  /\ At(p, "stat cert")
  /\ Goto(p, IF cert # Absent THEN "stat key" ELSE "generate")
  /\ UNCHANGED <<cert, key, mine, pairs, overlap, spoiled>>

StatKey(p) ==
  /\ At(p, "stat key")
  /\ Goto(p, IF key # Absent THEN "done" ELSE "generate")
  /\ UNCHANGED <<cert, key, mine, pairs, overlap, spoiled>>

Generate(p) ==
  /\ At(p, "generate")
  /\ \/ /\ pairs' = pairs + 1
        /\ mine' = [mine EXCEPT ![p] = pairs + 1]
        /\ Goto(p, "open cert")
     \/ Goto(p, "failed") /\ UNCHANGED <<pairs, mine>>
  /\ UNCHANGED <<cert, key, overlap, spoiled>>

(* os.WriteFile opens the file, which empties it, and writes.  Two calls   *)
(* that write at the same time leave one of the two texts or a mixture.    *)
Written(file, pair) ==
  IF file = Torn THEN {Of(pair)} ELSE {Of(pair), Torn}

(* To end here would leave both files there and of no use. *)
Spoils == spoiled' = (spoiled \/ (cert # Absent /\ key # Absent))

Fail(p) == Goto(p, "failed") /\ Spoils

OpenCert(p) ==
  /\ At(p, "open cert")
  /\ \/ cert' = Torn /\ Goto(p, "write cert") /\ UNCHANGED spoiled
     \/ Goto(p, "failed") /\ UNCHANGED <<cert, spoiled>>
  /\ UNCHANGED <<key, mine, pairs, overlap>>

WriteCert(p) ==
  /\ At(p, "write cert")
  /\ \/ cert' \in Written(cert, mine[p]) /\ Goto(p, "open key") /\ UNCHANGED spoiled
     \/ Fail(p) /\ UNCHANGED cert
  /\ UNCHANGED <<key, mine, pairs, overlap>>

OpenKey(p) ==
  /\ At(p, "open key")
  /\ \/ key' = Torn /\ Goto(p, "write key") /\ UNCHANGED spoiled
     \/ Fail(p) /\ UNCHANGED key
  /\ UNCHANGED <<cert, mine, pairs, overlap>>

WriteKey(p) ==
  /\ At(p, "write key")
  /\ \/ key' \in Written(key, mine[p]) /\ Goto(p, "done") /\ UNCHANGED spoiled
     \/ Fail(p) /\ UNCHANGED key
  /\ UNCHANGED <<cert, mine, pairs, overlap>>

Step(p) ==
  \/ StatCert(p) \/ StatKey(p) \/ Generate(p)
  \/ OpenCert(p) \/ WriteCert(p) \/ OpenKey(p) \/ WriteKey(p)

(* The caller goes on. *)
Return(p) ==
  /\ ensure[p] \in {"done", "failed"}
  /\ Clear(p)
  /\ UNCHANGED <<cert, key, pairs, overlap, spoiled>>

(* The process is killed. *)
Kill(p) ==
  /\ Clear(p)
  /\ IF ensure[p] \in {"write cert", "open key", "write key"}
     THEN Spoils ELSE UNCHANGED spoiled
  /\ UNCHANGED <<cert, key, pairs, overlap>>

(* The user removes a file, to have a new one made. *)
Remove ==
  /\ \A p \in Processes : At(p, "idle")
  /\ \/ cert # Absent /\ cert' = Absent /\ UNCHANGED key
     \/ key # Absent /\ key' = Absent /\ UNCHANGED cert
  /\ UNCHANGED <<ensure, mine, pairs, overlap, spoiled>>

Next ==
  \/ \E p \in Processes : Begin(p) \/ Step(p) \/ Return(p) \/ Kill(p)
  \/ Remove

Spec == Init /\ [][Next]_vars

(* tls.LoadX509KeyPair takes them. *)
Match == cert.state = "whole" /\ key = cert

-----------------------------------------------------------------------------
Places == {"idle", "stat cert", "stat key", "generate", "open cert", "write cert",
           "open key", "write key", "done", "failed"}

Files == {Absent, Torn} \union {Of(pair) : pair \in 0..pairs}

TypeOK ==
  /\ pairs \in Nat
  /\ cert \in Files /\ key \in Files
  /\ ensure \in [Processes -> Places] /\ mine \in [Processes -> 0..pairs]
  /\ overlap \in BOOLEAN /\ spoiled \in BOOLEAN

(* What a call leaves behind is a pair that matches, also after calls that *)
(* were killed or have failed, as long as one of the files was still       *)
(* missing then: the next call generates both (tls.go 22-26, 57-66).       *)
(* Calls in two processes at once are set apart, and so are ends in the    *)
(* middle of a file while both are there, as while the key is written:     *)
(* what they leave is never looked at again.                               *)
EnsuredPairMatches ==
  ~overlap /\ ~spoiled => \A p \in Processes : At(p, "done") => Match
=============================================================================
