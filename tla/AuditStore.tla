------------------------------ MODULE AuditStore ------------------------------
(***************************************************************************)
(* audit/store.py: the hash-chained JSONL audit file, shared by the worker *)
(* threads that serve /infer.  Every append call runs in a thread of its   *)
(* own: it builds the record's body, takes the store's lock, reads the     *)
(* last hash, writes one line and lets the lock go.  verify_chain reads    *)
(* the same file and takes no lock.                                        *)
(*                                                                         *)
(* The file is a sequence of fragments.  A write that completes adds the   *)
(* whole line; one that is cut short (disk full, process killed while the  *)
(* kernel copies the pages) can leave a proper prefix, or the whole record *)
(* without its end of line, and what is written next continues that line.  *)
(*                                                                         *)
(* SHA-256 is modelled as injective: a hash is the sequence of the bodies  *)
(* it commits to, and "0" * 64 commits to none.                            *)
(***************************************************************************)
EXTENDS Naturals, Sequences, FiniteSets

CONSTANTS Calls,     \* the append calls
          NoCall,    \* the owner of a lock nobody holds
          MaxCrashes \* bound on the number of process deaths

ASSUME CallsAssumption == NoCall \notin Calls
ASSUME BoundsAssumption == MaxCrashes \in Nat

VARIABLES
    pc,      \* where each append call is
    prev,    \* the local prev_hash of each call
    lock,    \* the owner of _append_lock
    file,    \* the fragments of completed and abandoned writes
    tail,    \* the fragment of the write in progress: <<>> or one fragment
    verify,  \* the state of one reader in verify_chain
    crashes  \* process deaths so far

vars == <<pc, prev, lock, file, tail, verify, crashes>>

\* What a record says besides its hashes; the records of two calls differ.
Bodies == Calls
Hashes == Seq(Bodies)
Genesis == <<>>
Hash(prevHash, b) == Append(prevHash, b)

\* A line, or what is there of it: not whole when it is a proper prefix of the
\* record, nl when the end of line is there too.
Fragments == [body : Bodies, prev : Hashes, hash : Hashes,
              whole : BOOLEAN, nl : BOOLEAN]

\* Mutant: the hash covers the record alone, not the one before it.
LineUnchained(c, isWhole, hasNl) ==
    [body |-> c, prev |-> prev[c], hash |-> Hash(Genesis, c),
     whole |-> isWhole, nl |-> hasNl]

Line(c, isWhole, hasNl) ==
    [body |-> c, prev |-> prev[c], hash |-> Hash(prev[c], c),
     whole |-> isWhole, nl |-> hasNl]

Waiting == {"new", "composed", "locked", "hashed", "writing"}
InAppend == {"composed", "locked", "hashed", "writing", "written"}
Holding == {"locked", "hashed", "writing", "written"}
Stages == {"new", "composed", "locked", "hashed", "writing", "written",
           "acked", "raised", "killed"}

\* What a reader of the path sees at this instant.
Visible == file \o tail

\* json.loads succeeds on every line: no prefix of a record, and no line made
\* of two.
Readable(fs) == \A i \in 1..Len(fs) : /\ fs[i].whole
                                      /\ i < Len(fs) => fs[i].nl

Chained(fs) ==
    \A i \in 1..Len(fs) :
        fs[i].whole => /\ fs[i].hash = Hash(fs[i].prev, fs[i].body)
                       /\ fs[i].prev = (IF i = 1 THEN Genesis ELSE fs[i - 1].hash)

DamagedAtMostLast(fs) == \A i \in 1..Len(fs) : ~fs[i].whole => i = Len(fs)

LastHash(fs) == IF fs = <<>> THEN Genesis ELSE fs[Len(fs)].hash

VerifyStates == [status : {"idle", "reading", "intact", "broken", "raised"},
                 pos : Nat \ {0}, prev : Hashes, count : Nat, floor : SUBSET Calls]

Idle == [status |-> "idle", pos |-> 1, prev |-> Genesis, count |-> 0, floor |-> {}]

Init == /\ pc = [c \in Calls |-> "new"]
        /\ prev = [c \in Calls |-> Genesis]
        /\ lock = NoCall
        /\ file = <<>>
        /\ tail = <<>>
        /\ verify = Idle
        /\ crashes = 0
----
\* append: the body is built before the lock is asked for.
Compose(c) == /\ pc[c] = "new"
              /\ pc' = [pc EXCEPT ![c] = "composed"]
              /\ UNCHANGED <<prev, lock, file, tail, verify, crashes>>

\* Mutant: no lock.
AcquireAnyway(c) == /\ pc[c] = "composed"
                    /\ lock' = c
                    /\ pc' = [pc EXCEPT ![c] = "locked"]
                    /\ UNCHANGED <<prev, file, tail, verify, crashes>>

\* with self._append_lock
Acquire(c) == /\ pc[c] = "composed"
              /\ lock = NoCall
              /\ lock' = c
              /\ pc' = [pc EXCEPT ![c] = "locked"]
              /\ UNCHANGED <<prev, file, tail, verify, crashes>>

\* Mutant: a line that does not parse is skipped.
ReadLastAnyway(c) == /\ pc[c] = "locked"
                     /\ prev' = [prev EXCEPT ![c] = LastHash(Visible)]
                     /\ pc' = [pc EXCEPT ![c] = "hashed"]
                     /\ UNCHANGED <<lock, file, tail, verify, crashes>>

\* _last_hash parses every line and keeps the last one's record_hash.
ReadLast(c) == /\ pc[c] = "locked"
               /\ Readable(Visible)
               /\ prev' = [prev EXCEPT ![c] = LastHash(Visible)]
               /\ pc' = [pc EXCEPT ![c] = "hashed"]
               /\ UNCHANGED <<lock, file, tail, verify, crashes>>

\* Mutant: acquire() without a finally.
ReadRaisesHolding(c) == /\ pc[c] = "locked"
                        /\ ~Readable(Visible)
                        /\ pc' = [pc EXCEPT ![c] = "raised"]
                        /\ UNCHANGED <<prev, lock, file, tail, verify, crashes>>

\* json.loads raises on a line it cannot parse; leaving the with block
\* releases the lock, and the call ends with the exception.
ReadRaises(c) == /\ pc[c] = "locked"
                 /\ ~Readable(Visible)
                 /\ pc' = [pc EXCEPT ![c] = "raised"]
                 /\ lock' = NoCall
                 /\ UNCHANGED <<prev, file, tail, verify, crashes>>

\* Mutant: a short write is followed by the record from its start.
WritePartAgain(c) == /\ pc[c] \in {"hashed", "writing"}
                     /\ tail' = Append(tail, Line(c, FALSE, FALSE))
                     /\ pc' = [pc EXCEPT ![c] = "writing"]
                     /\ UNCHANGED <<prev, lock, file, verify, crashes>>

\* The write reaches the file piece by piece: first a proper prefix, then all
\* but the end of line.
WritePart(c) == /\ pc[c] \in {"hashed", "writing"}
                /\ \/ tail = <<>> /\ tail' = <<Line(c, FALSE, FALSE)>>
                   \/ /\ tail # <<>> => ~tail[1].whole
                      /\ tail' = <<Line(c, TRUE, FALSE)>>
                /\ pc' = [pc EXCEPT ![c] = "writing"]
                /\ UNCHANGED <<prev, lock, file, verify, crashes>>

\* The whole line is in the file and the handle is closed.
WriteLine(c) == /\ pc[c] \in {"hashed", "writing"}
                /\ file' = Append(file, Line(c, TRUE, TRUE))
                /\ tail' = <<>>
                /\ pc' = [pc EXCEPT ![c] = "written"]
                /\ UNCHANGED <<prev, lock, verify, crashes>>

\* Mutant: the exception of the write is swallowed.
WriteRaisesUnheard(c) == /\ pc[c] \in {"hashed", "writing"}
                         /\ file' = file \o tail
                         /\ tail' = <<>>
                         /\ lock' = NoCall
                         /\ pc' = [pc EXCEPT ![c] = "acked"]
                         /\ UNCHANGED <<prev, verify, crashes>>

\* Mutant: a failed write is tried once more before the call raises.
WriteRaisesRetried(c) == /\ pc[c] \in {"hashed", "writing"}
                         /\ file' = file \o tail \o <<Line(c, TRUE, TRUE)>>
                         /\ tail' = <<>>
                         /\ lock' = NoCall
                         /\ pc' = [pc EXCEPT ![c] = "raised"]
                         /\ UNCHANGED <<prev, verify, crashes>>

\* The write or the close raises (a full disk): what was written stays.
WriteRaises(c) == /\ pc[c] \in {"hashed", "writing"}
                  /\ file' = file \o tail
                  /\ tail' = <<>>
                  /\ lock' = NoCall
                  /\ pc' = [pc EXCEPT ![c] = "raised"]
                  /\ UNCHANGED <<prev, verify, crashes>>

\* The lock is released and record_hash is returned.
Return(c) == /\ pc[c] = "written"
             /\ lock' = NoCall
             /\ pc' = [pc EXCEPT ![c] = "acked"]
             /\ UNCHANGED <<prev, file, tail, verify, crashes>>
----
Acked == {c \in Calls : pc[c] = "acked"}

\* verify_chain starts; floor remembers, for the properties only, which calls
\* had returned by then.
StartVerify == /\ verify.status # "reading"
               /\ verify' = [Idle EXCEPT !.status = "reading", !.floor = Acked]
               /\ UNCHANGED <<pc, prev, lock, file, tail, crashes>>

\* The line that starts at the reader's position ends at the first end of line
\* or at the end of the file; it parses when it is one whole record.
ParsesAt(pos) == /\ Visible[pos].whole
                 /\ Visible[pos].nl \/ pos = Len(Visible)

VerifyLine ==
    /\ verify.status = "reading"
    /\ verify.pos <= Len(Visible)
    /\ LET rec == Visible[verify.pos]
           expected == Hash(verify.prev, rec.body)
       IN  \/ /\ ~ParsesAt(verify.pos)
              /\ verify' = [verify EXCEPT !.status = "raised"]
           \/ /\ ParsesAt(verify.pos)
              /\ rec.prev # verify.prev \/ rec.hash # expected
              /\ verify' = [verify EXCEPT !.status = "broken"]
           \/ /\ ParsesAt(verify.pos)
              /\ rec.prev = verify.prev /\ rec.hash = expected
              /\ verify' = [verify EXCEPT !.pos = @ + 1, !.prev = expected,
                                          !.count = @ + 1]
    /\ UNCHANGED <<pc, prev, lock, file, tail, crashes>>

\* Mutant: one record too early.
FinishVerifyEarly == /\ verify.status = "reading"
                     /\ verify.pos >= Len(Visible)
                     /\ verify' = [verify EXCEPT !.status = "intact"]
                     /\ UNCHANGED <<pc, prev, lock, file, tail, crashes>>

FinishVerify == /\ verify.status = "reading"
                /\ verify.pos > Len(Visible)
                /\ verify' = [verify EXCEPT !.status = "intact"]
                /\ UNCHANGED <<pc, prev, lock, file, tail, crashes>>
----
\* The process dies and is restarted on the same path: the calls in progress
\* end with it, the new store has a new lock, and the file keeps what the
\* kernel had of the write in progress.
Crash == /\ crashes < MaxCrashes
         /\ crashes' = crashes + 1
         /\ pc' = [c \in Calls |-> IF pc[c] \in InAppend THEN "killed" ELSE pc[c]]
         /\ lock' = NoCall
         /\ file' = file \o tail
         /\ tail' = <<>>
         /\ verify' = Idle
         /\ UNCHANGED <<prev>>

\* What a thread does by itself once it is inside append.
CallStep(c) == \/ Acquire(c)
               \/ ReadLast(c) \/ ReadRaises(c)
               \/ WriteLine(c) \/ Return(c)

Next == \/ \E c \in Calls : Compose(c) \/ CallStep(c) \/ WritePart(c) \/ WriteRaises(c)
        \/ StartVerify \/ VerifyLine \/ FinishVerify
        \/ Crash

Spec == Init /\ [][Next]_vars

\* A thread inside append that can take its next step eventually takes it.
\* Nothing obliges a call to arrive, the disk to fail or the process to die.
Fairness == \A c \in Calls : WF_vars(CallStep(c))

FairSpec == Spec /\ Fairness
----
TypeOK == /\ pc \in [Calls -> Stages]
          /\ prev \in [Calls -> Hashes]
          /\ lock \in Calls \cup {NoCall}
          /\ file \in Seq(Fragments)
          /\ tail \in Seq(Fragments) /\ Len(tail) <= 1
          /\ verify \in VerifyStates
          /\ crashes \in 0..MaxCrashes

\* Every record in the file, the ones nobody was told of included, commits to
\* the record right before it: the read of the last hash and the write that
\* follows are one step to every other thread, through failed writes and
\* restarts (store.py:42-45, 72-77).
ChainIntact == Chained(file)

\* A call whose append returned has exactly one whole record in the file, and
\* no call has two.
AckedOnce ==
    \A c \in Calls :
        LET records == {i \in 1..Len(file) : file[i].whole /\ file[i].body = c}
        IN  /\ pc[c] = "acked" => records # {}
            /\ \A i, j \in records : i = j

\* The record of a call whose append returned has a line of its own, to be read
\* back as it was written.  One such record at most has not: it follows a record
\* that lost its end of line, whose call was told so or died, shares that line,
\* and stays the last of the file (store.py:51-56, 72-77).
AckedLegible ==
    \A i \in 1..Len(file) :
        file[i].whole /\ pc[file[i].body] = "acked" =>
            /\ file[i].nl
            /\ \/ i = 1 \/ file[i - 1].nl
               \/ /\ i = Len(file)
                  /\ file[i - 1].whole /\ pc[file[i - 1].body] # "acked"

\* verify_chain never reports tampering on a file only append wrote, whatever
\* appends run while it reads and whatever writes were cut short
\* (store.py:101-102).
NoFalseAlarm == verify.status # "broken"

\* When verify_chain answers "intact", the records it counted include those of
\* all the calls that had returned before it started (store.py:104-105).
IntactCountsAcked ==
    verify.status = "intact" =>
        \A c \in verify.floor :
            \E i \in 1..verify.count : Visible[i].whole /\ Visible[i].body = c

\* Nothing is ever chained behind damage: once a line of the file no longer
\* parses, no append changes the file (store.py:55 raises inside the lock).
UnreadableIsFrozen == [][~Readable(file) => file' = file]_file

\* Every thread inside append leaves it, by returning, by raising or with the
\* process: the lock is released on every path, so no exception under it can
\* leave the other threads waiting (store.py:72).
EveryAppendEnds ==
    \A c \in Calls : pc[c] = "composed" ~> pc[c] \in {"acked", "raised", "killed"}
----
(***************************************************************************)
(* The strengthening that makes ChainIntact inductive: between the read of *)
(* the last hash and the write nobody else holds the lock, so the hash the *)
(* writer remembers is still the last one and the file still parses.       *)
(***************************************************************************)
LockHeld == \A c \in Calls : pc[c] \in Holding => lock = c

TailOwned == /\ tail # <<>> => \E c \in Calls : pc[c] = "writing"
             /\ \A c \in Calls :
                   pc[c] = "writing" => \E w \in BOOLEAN : tail = <<Line(c, w, FALSE)>>

FreshPrev == \A c \in Calls :
                pc[c] \in {"hashed", "writing"} =>
                   Readable(file) /\ prev[c] = LastHash(file)

DamageIsLast == DamagedAtMostLast(file)

ChainInv == /\ TypeOK
            /\ LockHeld
            /\ TailOwned
            /\ FreshPrev
            /\ DamageIsLast
            /\ ChainIntact
----
(***************************************************************************)
(* What a reader in verify_chain has accepted, and whose records there     *)
(* are: the strengthenings of NoFalseAlarm, AckedOnce, IntactCountsAcked.   *)
(***************************************************************************)
ReaderInv ==
    verify.status = "reading" =>
        /\ verify.pos <= Len(Visible) + 1
        /\ \A i \in 1..(verify.pos - 1) : Visible[i].whole
        /\ verify.prev = (IF verify.pos = 1 THEN Genesis ELSE Visible[verify.pos - 1].hash)

RecordInv ==
    /\ \A i \in 1..Len(file) : file[i].whole => pc[file[i].body] \notin Waiting
    /\ \A i, j \in 1..Len(file) :
          file[i].whole /\ file[j].whole /\ file[i].body = file[j].body => i = j
    /\ \A c \in Calls :
          pc[c] \in {"written", "acked"} =>
             \E i \in 1..Len(file) : file[i].whole /\ file[i].body = c

\* The records of the calls that had returned when the reader started are in
\* what it sees, and behind it once it is done.
FloorInv ==
    verify.status \in {"reading", "intact"} =>
        /\ verify.pos = verify.count + 1
        /\ \A c \in verify.floor :
              \E i \in 1..Len(Visible) :
                 /\ Visible[i].whole /\ Visible[i].body = c
                 /\ verify.status = "intact" => i <= verify.count

\* A record without its end of line belongs to no call that got past its write,
\* and one more line at most follows it.
EndsInv ==
    \A i \in 1..Len(file) :
        ~file[i].nl => /\ file[i].whole => pc[file[i].body] \notin {"written", "acked"}
                       /\ Len(file) <= i + 1
----
\* The abstract log: the call of each whole record, or damage.
LogView == [i \in 1..Len(file) |-> IF file[i].whole THEN file[i].body ELSE NoCall]

OutcomeView == [c \in Calls |-> IF pc[c] \in Waiting THEN "waiting"
                               ELSE IF pc[c] = "written" THEN "appended"
                               ELSE IF pc[c] = "acked" THEN "acked" ELSE "failed"]

Log == INSTANCE AppendOnlyLog WITH Damage <- NoCall, log <- LogView, outcome <- OutcomeView

\* The store implements the append-only log: the lock makes the read of the
\* last hash and the write one append, and a failed write leaves at most one
\* entry (store.py:58-78).
ImplementsLog == Log!LogSpec
----
\* What store.py says of verify_chain; the code does otherwise.

\* store.py:81: verify_chain "Returns (intact, record_count)".
VerifyReturns == verify.status # "raised"
=============================================================================
