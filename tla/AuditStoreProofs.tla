--------------------------- MODULE AuditStoreProofs ---------------------------
(***************************************************************************)
(* Proofs about AuditStore for every set of calls and any number of        *)
(* failed writes and process deaths: the chain, then that the store keeps  *)
(* one record of every call that returned, that a reader counts them all,  *)
(* and that it implements AppendOnlyLog, what the gateway is proved and    *)
(* checked against.                                                        *)
(***************************************************************************)
EXTENDS AuditStore, SequenceTheorems, TLAPS

\* A hash stays a hash when it commits to one body more.
LEMMA HashTyped == \A h \in Hashes, b \in Bodies : Hash(h, b) \in Hashes
BY DEF Hash, Hashes

\* The last hash of any file is a hash.
LEMMA LastHashTyped == \A fs \in Seq(Fragments) : LastHash(fs) \in Hashes
<1> SUFFICES ASSUME NEW fs \in Seq(Fragments)
             PROVE LastHash(fs) \in Hashes
  OBVIOUS
<1>1. CASE fs = <<>>
  BY <1>1 DEF LastHash, Genesis, Hashes
<1>2. CASE fs # <<>>
  <2>1. Len(fs) \in 1..Len(fs)
    BY <1>2
  <2>2. fs[Len(fs)] \in Fragments
    BY <2>1
  <2>3. QED
    BY <1>2, <2>2 DEF LastHash, Fragments
<1>3. QED
  BY <1>1, <1>2

\* A typed call writes a typed line.
LEMMA LineTyped ==
    ASSUME NEW c \in Calls, prev[c] \in Hashes,
           NEW w \in BOOLEAN, NEW n \in BOOLEAN
    PROVE  Line(c, w, n) \in Fragments
BY HashTyped DEF Line, Fragments, Bodies

\* One fragment is a sequence of fragments, and one more can follow any.
LEMMA FragmentSeq == \A f \in Fragments : /\ <<f>> \in Seq(Fragments)
                                          /\ Len(<<f>>) = 1
                                          /\ \A fs \in Seq(Fragments) :
                                                Append(fs, f) \in Seq(Fragments)
OBVIOUS

\* What is put behind a file as a sequence of one is appended to it.
LEMMA OneMore == \A fs \in Seq(Fragments), f \in Fragments : fs \o <<f>> = Append(fs, f)
OBVIOUS

\* What a reader sees is a sequence of fragments.
LEMMA VisibleTyped == TypeOK => Visible \in Seq(Fragments)
BY DEF TypeOK, Visible

\* The initial state is well typed and every step keeps the state so.
LEMMA TypeInductive == /\ Init => TypeOK
                       /\ TypeOK /\ [Next]_vars => TypeOK'
<1>1. Init => TypeOK
  BY BoundsAssumption DEF Init, TypeOK, Stages, Bodies, Hashes, Genesis, Idle,
                           VerifyStates
<1>2. TypeOK /\ [Next]_vars => TypeOK'
  <2> SUFFICES ASSUME TypeOK, [Next]_vars
               PROVE TypeOK'
    OBVIOUS
  <2> USE BoundsAssumption DEF TypeOK
  <2>1. ASSUME NEW c \in Calls, Compose(c) PROVE TypeOK'
    BY <2>1 DEF Compose, Stages, Bodies
  <2>2. ASSUME NEW c \in Calls, Acquire(c) PROVE TypeOK'
    BY <2>2 DEF Acquire, Stages
  <2>3. ASSUME NEW c \in Calls, ReadLast(c) PROVE TypeOK'
    <3>1. LastHash(Visible) \in Hashes
      BY VisibleTyped, LastHashTyped
    <3>2. QED
      BY <2>3, <3>1 DEF ReadLast, Stages
  <2>4. ASSUME NEW c \in Calls, ReadRaises(c) PROVE TypeOK'
    BY <2>4 DEF ReadRaises, Stages
  <2>5. ASSUME NEW c \in Calls, NEW w \in BOOLEAN, NEW n \in BOOLEAN
        PROVE Line(c, w, n) \in Fragments
    BY LineTyped
  <2>6. ASSUME NEW c \in Calls, WritePart(c) PROVE TypeOK'
    <3>1. tail' \in Seq(Fragments) /\ Len(tail') <= 1
      <4>1. Line(c, FALSE, FALSE) \in Fragments /\ Line(c, TRUE, FALSE) \in Fragments
        BY <2>5
      <4>2. PICK f \in Fragments : tail' = <<f>>
        BY <4>1, <2>6 DEF WritePart
      <4>3. QED
        BY <4>2, FragmentSeq
    <3>2. QED
      BY <2>6, <3>1 DEF WritePart, Stages
  <2>7. ASSUME NEW c \in Calls, WriteLine(c) PROVE TypeOK'
    <3>1. file' \in Seq(Fragments)
      <4>1. Line(c, TRUE, TRUE) \in Fragments
        BY <2>5
      <4>2. QED
        BY <4>1, <2>7, FragmentSeq DEF WriteLine
    <3>2. tail' \in Seq(Fragments) /\ Len(tail') <= 1
      BY <2>7 DEF WriteLine
    <3>3. QED
      BY <2>7, <3>1, <3>2 DEF WriteLine, Stages
  <2>8. ASSUME NEW c \in Calls, WriteRaises(c) PROVE TypeOK'
    BY <2>8 DEF WriteRaises, Stages
  <2>9. ASSUME NEW c \in Calls, Return(c) PROVE TypeOK'
    BY <2>9 DEF Return, Stages
  <2>10. CASE StartVerify
    <3>1. Idle \in VerifyStates /\ Acked \subseteq Calls
      BY DEF Idle, Acked, Genesis, Hashes, VerifyStates
    <3>2. verify' \in VerifyStates
      BY <2>10, <3>1 DEF StartVerify, VerifyStates
    <3>3. QED
      BY <2>10, <3>2 DEF StartVerify
  <2>11. CASE VerifyLine
    <3>1. Visible[verify.pos] \in Fragments
      <4>1. verify.pos \in Nat /\ verify.pos <= Len(Visible)
        BY <2>11 DEF VerifyLine, VerifyStates
      <4>2. verify.pos # 0
        BY DEF VerifyStates
      <4>3. QED
        BY <4>1, <4>2, VisibleTyped
    <3>2. Hash(verify.prev, Visible[verify.pos].body) \in Hashes
      BY <3>1, HashTyped DEF Fragments, VerifyStates
    <3>3. verify' \in VerifyStates
      <4> DEFINE expected == Hash(verify.prev, Visible[verify.pos].body)
      <4>1. \/ verify' = [verify EXCEPT !.status = "raised"]
            \/ verify' = [verify EXCEPT !.status = "broken"]
            \/ verify' = [verify EXCEPT !.pos = @ + 1, !.prev = expected,
                                        !.count = @ + 1]
        BY <2>11 DEF VerifyLine
      <4>2. expected \in Hashes
        BY <3>2
      <4> HIDE DEF expected
      <4>3. verify.pos + 1 \in Nat \ {0} /\ verify.count + 1 \in Nat
        BY DEF VerifyStates
      <4>4. QED
        BY <4>1, <4>2, <4>3 DEF VerifyStates
    <3>4. QED
      BY <2>11, <3>3 DEF VerifyLine
  <2>12. CASE FinishVerify
    BY <2>12 DEF FinishVerify, VerifyStates
  <2>13. CASE Crash
    BY <2>13 DEF Crash, Stages, InAppend, Idle, Genesis, Hashes, VerifyStates
  <2>14. CASE UNCHANGED vars
    BY <2>14 DEF vars
  <2>15. QED
    BY <2>1, <2>2, <2>3, <2>4, <2>6, <2>7, <2>8, <2>9, <2>10, <2>11, <2>12,
       <2>13, <2>14 DEF Next, CallStep
<1>3. QED
  BY <1>1, <1>2

\* Every reachable state is well typed.
THEOREM TypeCorrect == Spec => []TypeOK
BY TypeInductive, PTL DEF Spec
----
\* A whole line written behind a readable file with the file's last hash keeps
\* the chain; so does anything that is not a whole record.
LEMMA ChainExtends ==
    ASSUME NEW fs \in Seq(Fragments), Chained(fs), Readable(fs), NEW f \in Fragments,
           f.whole => /\ f.hash = Hash(f.prev, f.body)
                      /\ f.prev = LastHash(fs)
    PROVE  Chained(Append(fs, f)) /\ DamagedAtMostLast(Append(fs, f))
<1> DEFINE gs == Append(fs, f)
<1>1. /\ Len(gs) = Len(fs) + 1
      /\ \A i \in 1..Len(fs) : gs[i] = fs[i]
      /\ gs[Len(fs) + 1] = f
  OBVIOUS
<1> HIDE DEF gs
<1>2. Chained(gs)
  <2> SUFFICES ASSUME NEW i \in 1..Len(gs), gs[i].whole
               PROVE  /\ gs[i].hash = Hash(gs[i].prev, gs[i].body)
                      /\ gs[i].prev = (IF i = 1 THEN Genesis ELSE gs[i - 1].hash)
    BY DEF Chained
  <2>1. CASE i \in 1..Len(fs)
    <3>1. gs[i] = fs[i]
      BY <1>1, <2>1
    <3>2. i # 1 => gs[i - 1] = fs[i - 1]
      BY <1>1, <2>1
    <3>3. QED
      BY <2>1, <3>1, <3>2 DEF Chained
  <2>2. CASE i = Len(fs) + 1
    <3>1. f.whole /\ gs[i] = f
      BY <1>1, <2>2
    <3>2. LastHash(fs) = (IF i = 1 THEN Genesis ELSE gs[i - 1].hash)
      BY <1>1, <2>2 DEF LastHash
    <3>3. QED
      BY <3>1, <3>2
  <2>3. QED
    BY <1>1, <2>1, <2>2
<1>3. DamagedAtMostLast(gs)
  BY <1>1 DEF DamagedAtMostLast, Readable
<1>4. QED
  BY <1>2, <1>3 DEF gs

\* A write in progress belongs to one call, is a fragment that extends the chain
\* behind a readable file, and is all a reader sees besides the file.
LEMMA TailFragment ==
    ASSUME ChainInv, tail # <<>>
    PROVE  \E c \in Calls, f \in Fragments :
              /\ pc[c] = "writing" /\ f.body = c
              /\ tail = <<f>> /\ Visible = Append(file, f)
              /\ f.hash = Hash(prev[c], c)
              /\ Readable(file) /\ prev[c] = LastHash(file)
              /\ Chained(Visible) /\ DamagedAtMostLast(Visible)
<1>1. PICK c \in Calls : pc[c] = "writing"
  BY DEF ChainInv, TailOwned
<1>2. PICK w \in BOOLEAN : tail = <<Line(c, w, FALSE)>>
  BY <1>1 DEF ChainInv, TailOwned
<1> DEFINE f == Line(c, w, FALSE)
<1>3. f \in Fragments
  BY LineTyped DEF ChainInv, TypeOK
<1>4. Readable(file) /\ prev[c] = LastHash(file)
  BY <1>1 DEF ChainInv, FreshPrev
<1>5. /\ f.body = c /\ f.hash = Hash(prev[c], c)
      /\ f.hash = Hash(f.prev, f.body) /\ f.prev = LastHash(file)
  BY <1>4 DEF Line
<1>6. tail = <<f>>
  BY <1>2
<1> HIDE DEF f
<1>7. file \in Seq(Fragments)
  BY DEF ChainInv, TypeOK
<1>8. Visible = Append(file, f)
  BY <1>3, <1>6, <1>7 DEF Visible
<1>9. Chained(Visible) /\ DamagedAtMostLast(Visible)
  BY <1>3, <1>4, <1>5, <1>7, <1>8, ChainExtends DEF ChainInv, ChainIntact
<1>10. QED
  BY <1>1, <1>3, <1>4, <1>5, <1>6, <1>8, <1>9

\* What a reader sees is chained, and damaged at its end at most.
LEMMA VisibleChained == ChainInv => Chained(Visible) /\ DamagedAtMostLast(Visible)
<1>1. ASSUME ChainInv, tail = <<>>
      PROVE  Chained(Visible) /\ DamagedAtMostLast(Visible)
  <2>1. Visible = file
    BY <1>1 DEF ChainInv, TypeOK, Visible
  <2>2. QED
    BY <1>1, <2>1 DEF ChainInv, ChainIntact, DamageIsLast
<1>2. QED
  BY <1>1, TailFragment

\* So a write that is abandoned keeps the chain.
LEMMA TailExtends ==
    ASSUME ChainInv, file' = file \o tail
    PROVE  ChainIntact' /\ DamageIsLast'
BY VisibleChained DEF Visible, ChainIntact, DamageIsLast

\* A step that leaves file, tail, bodies and remembered hashes alone, and moves
\* no call into the writing stages, keeps all but the lock's part.
LEMMA QuietStep ==
    ASSUME ChainInv, UNCHANGED <<prev, file, tail>>,
           \A c \in Calls : pc'[c] \in {"hashed", "writing"} => pc'[c] = pc[c],
           \A c \in Calls : pc[c] = "writing" => pc'[c] = pc[c]
    PROVE  TailOwned' /\ FreshPrev' /\ DamageIsLast' /\ ChainIntact'
<1>1. TailOwned'
  <2>1. \A c \in Calls, w \in BOOLEAN :
           pc[c] = "writing" => Line(c, w, FALSE)' = Line(c, w, FALSE)
    BY DEF Line
  <2>2. QED
    BY <2>1 DEF ChainInv, TailOwned
<1>2. FreshPrev'
  BY DEF ChainInv, FreshPrev, Readable, LastHash
<1>3. DamageIsLast' /\ ChainIntact'
  BY DEF ChainInv, DamageIsLast, ChainIntact
<1>4. QED
  BY <1>1, <1>2, <1>3

\* ChainInv holds at the start and every step keeps it.
LEMMA ChainInductive == /\ Init => ChainInv
                        /\ ChainInv /\ [Next]_vars => ChainInv'
<1>1. Init => ChainInv
  <2> SUFFICES ASSUME Init PROVE ChainInv
    OBVIOUS
  <2>1. TypeOK
    BY TypeInductive
  <2>2. /\ \A c \in Calls : pc[c] = "new"
        /\ file = <<>> /\ tail = <<>> /\ Len(file) = 0
    BY DEF Init
  <2>3. QED
    BY <2>1, <2>2 DEF ChainInv, LockHeld, TailOwned, FreshPrev, DamageIsLast,
                      ChainIntact, Chained, DamagedAtMostLast, Holding
<1>2. ChainInv /\ [Next]_vars => ChainInv'
  <2> SUFFICES ASSUME ChainInv, [Next]_vars
               PROVE  ChainInv'
    OBVIOUS
  <2>0. TypeOK /\ TypeOK'
    BY TypeInductive DEF ChainInv
  <2>1. ASSUME NEW c \in Calls, Compose(c) PROVE ChainInv'
    <3>1. LockHeld'
      BY <2>0, <2>1 DEF Compose, ChainInv, LockHeld, Holding, TypeOK
    <3>2. QED
      BY <2>0, <2>1, <3>1, QuietStep DEF Compose, ChainInv, TypeOK
  <2>2. ASSUME NEW c \in Calls, Acquire(c) PROVE ChainInv'
    <3>1. LockHeld'
      BY <2>0, <2>2, CallsAssumption DEF Acquire, ChainInv, LockHeld, Holding, TypeOK
    <3>2. QED
      BY <2>0, <2>2, <3>1, QuietStep DEF Acquire, ChainInv, TypeOK
  <2>3. ASSUME NEW c \in Calls, ReadLast(c) PROVE ChainInv'
    <3>1. LockHeld'
      BY <2>0, <2>3 DEF ReadLast, ChainInv, LockHeld, Holding, TypeOK
    <3>2. \A d \in Calls : pc[d] = "writing" => FALSE
      BY <2>0, <2>3 DEF ReadLast, ChainInv, LockHeld, Holding, TypeOK
    <3>3. tail = <<>> /\ Visible = file
      BY <2>0, <3>2 DEF ChainInv, TailOwned, Visible, TypeOK
    <3>4. TailOwned'
      BY <2>0, <2>3, <3>2, <3>3 DEF ReadLast, TailOwned, TypeOK
    <3>5. FreshPrev'
      BY <2>0, <2>3, <3>3 DEF ReadLast, ChainInv, FreshPrev, TypeOK, Readable, LastHash
    <3>6. DamageIsLast' /\ ChainIntact'
      BY <2>3 DEF ReadLast, ChainInv, DamageIsLast, ChainIntact
    <3>7. QED
      BY <2>0, <3>1, <3>4, <3>5, <3>6 DEF ChainInv
  <2>4. ASSUME NEW c \in Calls, ReadRaises(c) PROVE ChainInv'
    <3>1. LockHeld'
      BY <2>0, <2>4 DEF ReadRaises, ChainInv, LockHeld, Holding, TypeOK
    <3>2. QED
      BY <2>0, <2>4, <3>1, QuietStep DEF ReadRaises, ChainInv, TypeOK
  <2>5. ASSUME NEW c \in Calls, WritePart(c) PROVE ChainInv'
    <3>1. LockHeld'
      BY <2>0, <2>5 DEF WritePart, ChainInv, LockHeld, Holding, TypeOK
    <3>2. \A d \in Calls : pc'[d] = "writing" => d = c
      BY <2>0, <2>5 DEF WritePart, ChainInv, LockHeld, Holding, TypeOK
    <3>3. TailOwned'
      <4>1. \A w \in BOOLEAN : Line(c, w, FALSE)' = Line(c, w, FALSE)
        BY <2>5 DEF WritePart, Line
      <4>2. pc'[c] = "writing"
        BY <2>0, <2>5 DEF WritePart, TypeOK
      <4>3. \E w \in BOOLEAN : tail' = <<Line(c, w, FALSE)>>
        BY <2>5 DEF WritePart
      <4>4. QED
        BY <3>2, <4>1, <4>2, <4>3 DEF TailOwned
    <3>4. FreshPrev'
      BY <2>0, <2>5 DEF WritePart, ChainInv, FreshPrev, TypeOK, Readable, LastHash
    <3>5. DamageIsLast' /\ ChainIntact'
      BY <2>5 DEF WritePart, ChainInv, DamageIsLast, ChainIntact
    <3>6. QED
      BY <2>0, <3>1, <3>3, <3>4, <3>5 DEF ChainInv
  <2>6. ASSUME NEW c \in Calls, WriteLine(c) PROVE ChainInv'
    <3>1. LockHeld'
      BY <2>0, <2>6 DEF WriteLine, ChainInv, LockHeld, Holding, TypeOK
    <3>2. \A d \in Calls : pc'[d] \notin {"hashed", "writing"}
      BY <2>0, <2>6 DEF WriteLine, ChainInv, LockHeld, Holding, TypeOK
    <3>3. TailOwned' /\ FreshPrev'
      BY <2>6, <3>2 DEF WriteLine, TailOwned, FreshPrev
    <3>4. DamageIsLast' /\ ChainIntact'
      <4> DEFINE f == Line(c, TRUE, TRUE)
      <4>1. f \in Fragments
        BY <2>0, LineTyped DEF TypeOK
      <4>2. Readable(file) /\ prev[c] = LastHash(file)
        BY <2>6 DEF WriteLine, ChainInv, FreshPrev
      <4>3. f.hash = Hash(f.prev, f.body) /\ f.prev = LastHash(file)
        BY <4>2 DEF Line
      <4>4. file' = Append(file, f)
        BY <2>6 DEF WriteLine
      <4> HIDE DEF f
      <4>5. Chained(file') /\ DamagedAtMostLast(file')
        BY <2>0, <4>1, <4>2, <4>3, <4>4, ChainExtends DEF ChainInv, ChainIntact, TypeOK
      <4>6. QED
        BY <4>5 DEF ChainIntact, DamageIsLast
    <3>5. QED
      BY <2>0, <3>1, <3>3, <3>4 DEF ChainInv
  <2>7. ASSUME NEW c \in Calls, WriteRaises(c) PROVE ChainInv'
    <3>1. LockHeld'
      BY <2>0, <2>7 DEF WriteRaises, ChainInv, LockHeld, Holding, TypeOK
    <3>2. \A d \in Calls : pc'[d] \notin {"hashed", "writing"}
      BY <2>0, <2>7 DEF WriteRaises, ChainInv, LockHeld, Holding, TypeOK
    <3>3. TailOwned' /\ FreshPrev'
      BY <2>7, <3>2 DEF WriteRaises, TailOwned, FreshPrev
    <3>4. DamageIsLast' /\ ChainIntact'
      BY <2>7, TailExtends DEF WriteRaises
    <3>5. QED
      BY <2>0, <3>1, <3>3, <3>4 DEF ChainInv
  <2>8. ASSUME NEW c \in Calls, Return(c) PROVE ChainInv'
    <3>1. LockHeld'
      BY <2>0, <2>8 DEF Return, ChainInv, LockHeld, Holding, TypeOK
    <3>2. QED
      BY <2>0, <2>8, <3>1, QuietStep DEF Return, ChainInv, TypeOK
  <2>9. CASE StartVerify \/ VerifyLine \/ FinishVerify
    <3>1. UNCHANGED <<pc, prev, lock, file, tail>>
      BY <2>9 DEF StartVerify, VerifyLine, FinishVerify
    <3>2. LockHeld'
      BY <3>1 DEF ChainInv, LockHeld
    <3>3. QED
      BY <2>0, <3>1, <3>2, QuietStep DEF ChainInv
  <2>10. CASE Crash
    <3>1. \A d \in Calls : pc'[d] \notin Holding
      BY <2>0, <2>10 DEF Crash, Holding, InAppend, TypeOK, Stages
    <3>2. LockHeld' /\ TailOwned' /\ FreshPrev'
      BY <2>10, <3>1 DEF Crash, LockHeld, TailOwned, FreshPrev, Holding
    <3>3. DamageIsLast' /\ ChainIntact'
      BY <2>10, TailExtends DEF Crash
    <3>4. QED
      BY <2>0, <3>2, <3>3 DEF ChainInv
  <2>11. CASE UNCHANGED vars
    <3>1. UNCHANGED <<pc, prev, lock, file, tail>>
      BY <2>11 DEF vars
    <3>2. LockHeld'
      BY <3>1 DEF ChainInv, LockHeld
    <3>3. QED
      BY <2>0, <3>1, <3>2, QuietStep DEF ChainInv
  <2>12. QED
    BY <2>1, <2>2, <2>3, <2>4, <2>5, <2>6, <2>7, <2>8, <2>9, <2>10, <2>11
       DEF Next, CallStep
<1>3. QED
  BY <1>1, <1>2

\* The hash chain in the file is intact in every reachable state, for any
\* number of threads, failed writes and restarts.
THEOREM ChainAlwaysIntact == Spec => []ChainIntact
<1>1. ChainInv => ChainIntact
  BY DEF ChainInv
<1>2. QED
  BY <1>1, ChainInductive, PTL DEF Spec

\* A file with a line that does not parse never changes again: no append is
\* chained behind damage.
THEOREM UnreadableFrozen == Spec => UnreadableIsFrozen
<1>1. ChainInv /\ [Next]_vars => [~Readable(file) => file' = file]_file
  <2> SUFFICES ASSUME ChainInv, [Next]_vars, ~Readable(file)
               PROVE  file' = file
    OBVIOUS
  <2>1. \A c \in Calls : pc[c] \notin {"hashed", "writing"}
    BY DEF ChainInv, FreshPrev
  <2>2. tail = <<>> /\ file \o tail = file
    BY <2>1 DEF ChainInv, TailOwned, TypeOK
  <2>3. QED
    BY <2>1, <2>2 DEF Next, CallStep, Compose, Acquire, ReadLast, ReadRaises, WritePart,
       WriteLine, WriteRaises, Return, StartVerify, VerifyLine, FinishVerify,
       Crash, vars
<1>2. QED
  BY <1>1, ChainInductive, PTL DEF Spec, UnreadableIsFrozen
----
\* The reader's part survives every step in which what it has read stays whole
\* and keeps its hash.
LEMMA ReaderKeeps ==
    ASSUME TypeOK, TypeOK', ReaderInv, UNCHANGED verify,
           Len(Visible) <= Len(Visible'),
           \A i \in 1..Len(Visible) :
              Visible[i].whole => Visible'[i].whole /\ Visible'[i].hash = Visible[i].hash
    PROVE  ReaderInv'
<1> SUFFICES ASSUME verify.status = "reading"
             PROVE  ReaderInv'
  BY DEF ReaderInv
<1>1. verify.pos \in Nat \ {0}
  BY DEF TypeOK, VerifyStates
<1>2. Visible \in Seq(Fragments) /\ Visible' \in Seq(Fragments)
  BY VisibleTyped DEF TypeOK, Visible
<1>3. /\ verify.pos <= Len(Visible) + 1
      /\ \A i \in 1..(verify.pos - 1) : Visible[i].whole
      /\ verify.prev = (IF verify.pos = 1 THEN Genesis ELSE Visible[verify.pos - 1].hash)
  BY DEF ReaderInv
<1>4. \A i \in 1..(verify.pos - 1) :
         i \in 1..Len(Visible) /\ Visible'[i].whole /\ Visible'[i].hash = Visible[i].hash
  BY <1>1, <1>2, <1>3
<1>5. verify.pos <= Len(Visible') + 1
  BY <1>1, <1>2, <1>3
<1>6. verify.prev = (IF verify.pos = 1 THEN Genesis ELSE Visible'[verify.pos - 1].hash)
  BY <1>1, <1>3, <1>4
<1>7. QED
  BY <1>4, <1>5, <1>6 DEF ReaderInv

\* What a step of a call does to what a reader sees: whole records stay where
\* they are, a write in progress only grows, and an abandoned one stays.
LEMMA VisibleGrows ==
    ASSUME ChainInv, TypeOK', NEW c \in Calls,
           Compose(c) \/ CallStep(c) \/ WritePart(c) \/ WriteRaises(c)
    PROVE  /\ Len(Visible) <= Len(Visible')
           /\ \A i \in 1..Len(Visible) :
                 Visible[i].whole => Visible'[i].whole /\ Visible'[i].hash = Visible[i].hash
<1>0. /\ file \in Seq(Fragments) /\ tail \in Seq(Fragments) /\ Len(tail) <= 1
      /\ Visible \in Seq(Fragments)
  BY VisibleTyped DEF ChainInv, TypeOK
<1>1. CASE UNCHANGED <<file, tail>>
  <2>1. Visible' = Visible
    BY <1>1 DEF Visible
  <2>2. QED
    BY <1>0, <2>1
<1>2. ASSUME pc[c] \in {"hashed", "writing"}, tail # <<>>
      PROVE  \E f \in Fragments : /\ Visible = Append(file, f)
                                  /\ f.hash = Hash(prev[c], c)
                                  /\ tail = <<f>>
  <2>1. \A d \in Calls : pc[d] = "writing" => d = c
    BY <1>2 DEF ChainInv, LockHeld, Holding
  <2>2. QED
    BY <1>2, <2>1, TailFragment
<1>3. \A w, n \in BOOLEAN : Line(c, w, n) \in Fragments /\ Line(c, w, n).hash = Hash(prev[c], c)
                            /\ Line(c, w, n).whole = w
  BY LineTyped DEF ChainInv, TypeOK, Line
<1>4. ASSUME pc[c] \in {"hashed", "writing"}, NEW f \in Fragments, f.whole,
             f.hash = Hash(prev[c], c), Visible' = Append(file, f)
      PROVE  /\ Len(Visible) <= Len(Visible')
             /\ \A i \in 1..Len(Visible) :
                   Visible[i].whole => Visible'[i].whole /\ Visible'[i].hash = Visible[i].hash
  <2>1. CASE tail = <<>>
    <3>1. Visible = file
      BY <1>0, <2>1 DEF Visible
    <3>2. QED
      BY <1>0, <1>4, <3>1
  <2>2. CASE tail # <<>>
    <3>1. PICK g \in Fragments : Visible = Append(file, g) /\ g.hash = Hash(prev[c], c)
      BY <1>2, <1>4, <2>2
    <3>2. QED
      BY <1>0, <1>4, <3>1
  <2>3. QED
    BY <2>1, <2>2
<1>5. CASE WritePart(c)
  <2>1. PICK w \in BOOLEAN : /\ tail' = <<Line(c, w, FALSE)>> /\ file' = file
                             /\ w = FALSE => tail = <<>>
    BY <1>5 DEF WritePart
  <2> DEFINE f == Line(c, w, FALSE)
  <2>2. f \in Fragments /\ f.hash = Hash(prev[c], c) /\ f.whole = w
    BY <1>3
  <2> HIDE DEF f
  <2>3. tail' = <<f>>
    BY <2>1 DEF f
  <2>4. Visible' = Append(file, f)
    <3>1. Visible' = file \o <<f>>
      BY <2>1, <2>3 DEF Visible
    <3>2. QED
      BY <1>0, <2>2, <3>1, OneMore
  <2>5. CASE w = TRUE
    BY <1>4, <1>5, <2>2, <2>4, <2>5 DEF WritePart
  <2>6. CASE w = FALSE
    <3>1. Visible = file
      BY <1>0, <2>1, <2>6 DEF Visible
    <3>2. QED
      BY <1>0, <2>2, <2>4, <3>1
  <2>7. QED
    BY <2>5, <2>6
<1>6. CASE WriteLine(c)
  <2> DEFINE f == Line(c, TRUE, TRUE)
  <2>1. f \in Fragments /\ f.hash = Hash(prev[c], c) /\ f.whole
    BY <1>3
  <2>2. file' = Append(file, f) /\ tail' = <<>> /\ pc[c] \in {"hashed", "writing"}
    BY <1>6 DEF WriteLine
  <2> HIDE DEF f
  <2>3. Visible' = Append(file, f)
    BY <1>0, <2>1, <2>2 DEF Visible
  <2>4. QED
    BY <1>4, <2>1, <2>2, <2>3
<1>7. CASE WriteRaises(c)
  <2>1. Visible' = Visible
    BY <1>0, <1>7 DEF WriteRaises, Visible
  <2>2. QED
    BY <1>0, <2>1
<1>8. QED
  BY <1>1, <1>5, <1>6, <1>7 DEF Compose, CallStep, Acquire, ReadLast, ReadRaises, Return

\* verify_chain never reports tampering on a file only append wrote, whatever it
\* reads while appends run, fail or die.
THEOREM VerifierNeverAlarms == Spec => []NoFalseAlarm
<1> DEFINE Inv == ChainInv /\ ReaderInv /\ NoFalseAlarm
<1>1. Init => Inv
  BY ChainInductive DEF Init, Idle, ReaderInv, NoFalseAlarm
<1>2. Inv /\ [Next]_vars => Inv'
  <2> SUFFICES ASSUME Inv, [Next]_vars
               PROVE  ReaderInv' /\ NoFalseAlarm'
    BY ChainInductive
  <2>0. TypeOK /\ TypeOK' /\ Visible \in Seq(Fragments)
    BY TypeInductive, VisibleTyped DEF ChainInv
  <2>1. ASSUME NEW c \in Calls, Compose(c) \/ CallStep(c) \/ WritePart(c) \/ WriteRaises(c)
        PROVE  ReaderInv' /\ NoFalseAlarm'
    <3>1. verify' = verify
      BY <2>1 DEF Compose, CallStep, WritePart, WriteRaises, Acquire, ReadLast, ReadRaises,
                  WriteLine, Return
    <3>2. ReaderInv'
      BY <2>0, <2>1, <3>1, VisibleGrows, ReaderKeeps
    <3>3. QED
      BY <3>1, <3>2 DEF NoFalseAlarm
  <2>2. CASE StartVerify
    <3>1. /\ verify'.status = "reading" /\ verify'.pos = 1 /\ verify'.prev = Genesis
      BY <2>2 DEF StartVerify, Idle
    <3>2. Len(Visible') \in Nat
      BY <2>0, <2>2 DEF StartVerify, Visible
    <3>3. QED
      BY <3>1, <3>2 DEF ReaderInv, NoFalseAlarm
  <2>3. CASE VerifyLine
    <3> DEFINE p == verify.pos
               rec == Visible[p]
    <3>1. /\ verify.status = "reading" /\ p \in 1..Len(Visible)
          /\ p \in Nat \ {0} /\ Visible' = Visible
      BY <2>0, <2>3 DEF VerifyLine, TypeOK, VerifyStates, Visible
    <3>2. ParsesAt(p) => /\ rec.whole
                         /\ rec.prev = verify.prev
                         /\ rec.hash = Hash(verify.prev, rec.body)
      BY <3>1, VisibleChained DEF ParsesAt, ReaderInv, Chained
    <3>3. CASE ~ParsesAt(p)
      <4>1. verify' = [verify EXCEPT !.status = "raised"]
        BY <2>3, <3>3 DEF VerifyLine
      <4>2. verify'.status = "raised"
        BY <2>0, <4>1 DEF TypeOK, VerifyStates
      <4>3. QED
        BY <4>2 DEF ReaderInv, NoFalseAlarm
    <3>4. CASE ParsesAt(p)
      <4>1. verify' = [verify EXCEPT !.pos = @ + 1,
                                     !.prev = Hash(verify.prev, rec.body), !.count = @ + 1]
        BY <2>3, <3>2, <3>4 DEF VerifyLine
      <4>2. /\ verify'.status = "reading" /\ verify'.pos = p + 1
            /\ verify'.prev = rec.hash
        BY <2>0, <3>1, <3>2, <3>4, <4>1 DEF TypeOK, VerifyStates
      <4>3. QED
        BY <2>0, <3>1, <3>2, <3>4, <4>2 DEF ReaderInv, NoFalseAlarm
    <3>5. QED
      BY <3>3, <3>4
  <2>4. CASE FinishVerify
    BY <2>0, <2>4 DEF FinishVerify, TypeOK, VerifyStates, ReaderInv, NoFalseAlarm
  <2>5. CASE Crash
    BY <2>5 DEF Crash, Idle, ReaderInv, NoFalseAlarm
  <2>6. CASE UNCHANGED vars
    <3>1. verify' = verify /\ Visible' = Visible
      BY <2>6 DEF vars, Visible
    <3>2. QED
      BY <3>1 DEF ReaderInv, NoFalseAlarm
  <2>7. QED
    BY <2>1, <2>2, <2>3, <2>4, <2>5, <2>6 DEF Next
<1>3. Inv => NoFalseAlarm
  OBVIOUS
<1>4. QED
  BY <1>1, <1>2, <1>3, PTL DEF Spec
----
\* The fragment that a step of a call, or the death of the process, adds to the
\* file, and the call it comes from.
Adds(f, c) == /\ f \in Fragments /\ c \in Calls
              /\ f.body = c
              /\ file' = Append(file, f)
              /\ pc[c] \in {"hashed", "writing"} /\ pc'[c] \notin Waiting
              /\ Readable(file)

\* The file changes by one fragment of the call that holds the lock, or not at all.
LEMMA FileSteps ==
    ASSUME ChainInv, [Next]_vars
    PROVE  file' = file \/ \E f, c : Adds(f, c)
<1>0. TypeOK /\ TypeOK' /\ file \in Seq(Fragments) /\ tail \in Seq(Fragments)
  BY TypeInductive DEF ChainInv, TypeOK
<1>1. ASSUME NEW c \in Calls, WriteLine(c)
      PROVE  \E f : Adds(f, c)
  <2> DEFINE f == Line(c, TRUE, TRUE)
  <2>1. f \in Fragments /\ f.body = c
    BY <1>0, LineTyped DEF TypeOK, Line
  <2>2. file' = Append(file, f) /\ pc[c] \in {"hashed", "writing"}
    BY <1>1 DEF WriteLine
  <2>3. pc'[c] \notin Waiting /\ Readable(file)
    BY <1>0, <1>1 DEF WriteLine, TypeOK, Waiting, ChainInv, FreshPrev
  <2>4. QED
    BY <2>1, <2>2, <2>3 DEF Adds
<1>2. ASSUME file' = file \o tail, \A c \in Calls : pc[c] = "writing" => pc'[c] \notin Waiting
      PROVE  file' = file \/ \E f, c : Adds(f, c)
  <2>1. CASE tail = <<>>
    BY <1>0, <1>2, <2>1
  <2>2. CASE tail # <<>>
    <3>1. PICK c \in Calls, f \in Fragments :
             /\ pc[c] = "writing" /\ f.body = c /\ tail = <<f>> /\ Readable(file)
      BY <2>2, TailFragment
    <3>2. file' = Append(file, f)
      BY <1>0, <1>2, <3>1, OneMore
    <3>3. QED
      BY <1>2, <3>1, <3>2 DEF Adds
  <2>3. QED
    BY <2>1, <2>2
<1>3. ASSUME NEW c \in Calls, WriteRaises(c)
      PROVE  file' = file \/ \E f, d : Adds(f, d)
  <2>1. \A d \in Calls : pc[d] = "writing" => d = c
    BY <1>3 DEF WriteRaises, ChainInv, LockHeld, Holding
  <2>2. pc'[c] \notin Waiting
    BY <1>0, <1>3 DEF WriteRaises, TypeOK, Waiting
  <2>3. QED
    BY <1>2, <1>3, <2>1, <2>2 DEF WriteRaises
<1>4. ASSUME Crash
      PROVE  file' = file \/ \E f, d : Adds(f, d)
  <2>1. \A d \in Calls : pc[d] = "writing" => pc'[d] \notin Waiting
    BY <1>4 DEF Crash, InAppend, Waiting
  <2>2. QED
    BY <1>2, <1>4, <2>1 DEF Crash
<1>5. QED
  BY <1>1, <1>3, <1>4 DEF Next, CallStep, Compose, Acquire, ReadLast, ReadRaises,
     WritePart, Return, StartVerify, VerifyLine, FinishVerify, vars

\* No step makes an ended call wait again, and a call is written or acked only
\* by writing its whole line.
LEMMA StageSteps ==
    ASSUME ChainInv, [Next]_vars, NEW c \in Calls
    PROVE  /\ pc'[c] \in Waiting => pc[c] \in Waiting
           /\ pc'[c] \in {"written", "acked"} =>
                 \/ pc[c] \in {"written", "acked"}
                 \/ file' = Append(file, Line(c, TRUE, TRUE))
<1>0. pc \in [Calls -> Stages]
  BY DEF ChainInv, TypeOK
<1>1. ASSUME NEW d \in Calls, Compose(d) \/ CallStep(d) \/ WritePart(d) \/ WriteRaises(d)
      PROVE  /\ pc'[c] \in Waiting => pc[c] \in Waiting
             /\ pc'[c] \in {"written", "acked"} =>
                   \/ pc[c] \in {"written", "acked"}
                   \/ file' = Append(file, Line(c, TRUE, TRUE))
  BY <1>0, <1>1 DEF Compose, CallStep, Acquire, ReadLast, ReadRaises, WritePart, WriteLine,
     WriteRaises, Return, Waiting
<1>2. CASE Crash
  BY <1>0, <1>2 DEF Crash, InAppend, Waiting
<1>3. QED
  BY <1>1, <1>2 DEF Next, StartVerify, VerifyLine, FinishVerify, vars

\* One record per call that is in the file, and one of each call that returned.
LEMMA RecordInductive == /\ Init => RecordInv
                         /\ ChainInv /\ RecordInv /\ [Next]_vars => RecordInv'
<1>1. Init => RecordInv
  BY DEF Init, RecordInv
<1>2. ChainInv /\ RecordInv /\ [Next]_vars => RecordInv'
  <2> SUFFICES ASSUME ChainInv, RecordInv, [Next]_vars
               PROVE  RecordInv'
    OBVIOUS
  <2>0. file \in Seq(Fragments) /\ TypeOK
    BY DEF ChainInv, TypeOK
  <2>a. \A i \in 1..Len(file) : file[i].body \in Calls
    <3>1. \A i \in 1..Len(file) : file[i] \in Fragments
      BY <2>0
    <3>2. \A f \in Fragments : f.body \in Calls
      BY DEF Fragments, Bodies
    <3>3. QED
      BY <3>1, <3>2
  <2>1. CASE file' = file
    <3>1. \A c \in Calls : file' # Append(file, Line(c, TRUE, TRUE))
      <4>1. \A c \in Calls : Line(c, TRUE, TRUE) \in Fragments
        BY <2>0, LineTyped DEF TypeOK
      <4>2. ASSUME NEW f \in Fragments PROVE Append(file, f) # file
        <5>1. Len(Append(file, f)) = Len(file) + 1 /\ Len(file) \in Nat
          BY <2>0
        <5>2. QED
          BY <5>1
      <4>3. QED
        BY <2>1, <4>1, <4>2
    <3>2. QED
      BY <2>a, <2>1, <3>1, StageSteps DEF RecordInv
  <2>2. ASSUME NEW f, NEW c, Adds(f, c)
        PROVE  RecordInv'
    <3>0. /\ f \in Fragments /\ c \in Calls /\ f.body = c
          /\ file' = Append(file, f)
          /\ pc[c] \in Waiting /\ pc'[c] \notin Waiting
      BY <2>2 DEF Adds, Waiting
    <3>1. /\ Len(file') = Len(file) + 1
          /\ \A i \in 1..Len(file) : file'[i] = file[i]
          /\ file'[Len(file) + 1] = f
      BY <2>0, <3>0
    <3>2. \A i \in 1..Len(file) : file[i].whole => file[i].body # c
      BY <3>0 DEF RecordInv
    <3>3. \A i \in 1..Len(file') : file'[i].whole => pc'[file'[i].body] \notin Waiting
      <4>1. Len(file) \in Nat /\ Len(file') = Len(file) + 1
        BY <2>0, <3>1
      <4>2. \A i \in 1..Len(file) : file[i].whole => pc'[file[i].body] \notin Waiting
        BY <2>a, StageSteps DEF RecordInv
      <4>3. \A i \in 1..Len(file') : i \in 1..Len(file) \/ i = Len(file) + 1
        BY <4>1
      <4>4. QED
        BY <3>0, <3>1, <4>2, <4>3
    <3>4. \A i, j \in 1..Len(file') :
             file'[i].whole /\ file'[j].whole /\ file'[i].body = file'[j].body => i = j
      BY <2>0, <3>0, <3>1, <3>2 DEF RecordInv
    <3>5. ASSUME NEW d \in Calls, pc'[d] \in {"written", "acked"}
          PROVE  \E i \in 1..Len(file') : file'[i].whole /\ file'[i].body = d
      <4>1. CASE pc[d] \in {"written", "acked"}
        <5>1. PICK i \in 1..Len(file) : file[i].whole /\ file[i].body = d
          BY <4>1 DEF RecordInv
        <5>2. QED
          BY <2>0, <3>1, <5>1
      <4>2. CASE file' = Append(file, Line(d, TRUE, TRUE))
        <5> DEFINE g == Line(d, TRUE, TRUE)
        <5>1. g \in Fragments /\ g.whole /\ g.body = d
          BY <2>0, LineTyped DEF TypeOK, Line
        <5>2. file' = Append(file, g)
          BY <4>2
        <5> HIDE DEF g
        <5>3. file'[Len(file) + 1] = g /\ Len(file) + 1 \in 1..Len(file')
          BY <2>0, <5>1, <5>2
        <5>4. QED
          BY <5>1, <5>3
      <4>3. QED
        BY <3>5, <4>1, <4>2, StageSteps
    <3>6. QED
      BY <3>3, <3>4, <3>5 DEF RecordInv
  <2>3. QED
    BY <2>1, <2>2, FileSteps
<1>3. QED
  BY <1>1, <1>2

\* A call gets past its write only by a line with its end of line, and at most
\* one line follows a record that has none.
LEMMA EndsInductive == /\ Init => EndsInv
                       /\ ChainInv /\ RecordInv /\ EndsInv /\ [Next]_vars => EndsInv'
<1>1. Init => EndsInv
  BY DEF Init, EndsInv
<1>2. ASSUME ChainInv, RecordInv, EndsInv, [Next]_vars
      PROVE  EndsInv'
  <2>0. /\ file \in Seq(Fragments) /\ TypeOK
        /\ \A i \in 1..Len(file) : file[i] \in Fragments
        /\ \A f \in Fragments : f.body \in Calls
    <3>1. file \in Seq(Fragments) /\ TypeOK
      BY <1>2 DEF ChainInv, TypeOK
    <3>2. \A i \in 1..Len(file) : file[i] \in Fragments
      BY <3>1
    <3>3. \A f \in Fragments : f.body \in Calls
      BY DEF Fragments, Bodies
    <3>4. QED
      BY <3>1, <3>2, <3>3
  <2>1. ASSUME NEW c \in Calls, pc'[c] \in {"written", "acked"},
               pc[c] \notin {"written", "acked"}
        PROVE  \E g \in Fragments : g.body = c /\ g.nl /\ file' = Append(file, g)
    <3>1. /\ Line(c, TRUE, TRUE) \in Fragments
          /\ Line(c, TRUE, TRUE).body = c /\ Line(c, TRUE, TRUE).nl
      BY <2>0, LineTyped DEF TypeOK, Line
    <3>2. file' = Append(file, Line(c, TRUE, TRUE))
      BY <1>2, <2>1, StageSteps
    <3>3. QED
      BY <3>1, <3>2
  <2>2. CASE file' = file
    <3>1. \A f \in Fragments : Append(file, f) # file
      <4>1. \A f \in Fragments : Len(Append(file, f)) = Len(file) + 1 /\ Len(file) \in Nat
        BY <2>0
      <4>2. QED
        BY <4>1
    <3>2. \A c \in Calls : pc'[c] \in {"written", "acked"} => pc[c] \in {"written", "acked"}
      BY <2>1, <2>2, <3>1
    <3>3. QED
      BY <1>2, <2>0, <2>2, <3>2 DEF EndsInv
  <2>3. ASSUME NEW f, NEW c, Adds(f, c)
        PROVE  EndsInv'
    <3>0. /\ f \in Fragments /\ c \in Calls /\ f.body = c
          /\ file' = Append(file, f) /\ Readable(file)
          /\ pc[c] \in Waiting /\ pc[c] \notin {"written", "acked"}
      BY <2>3 DEF Adds, Waiting
    <3>1. /\ Len(file) \in Nat /\ Len(file') = Len(file) + 1
          /\ \A i \in 1..Len(file) : file'[i] = file[i]
          /\ file'[Len(file) + 1] = f
      BY <2>0, <3>0
    <3>2. \A g \in Fragments : file' = Append(file, g) => g = f
      BY <2>0, <3>0, <3>1
    <3>3. \A i \in 1..Len(file) : file[i].whole /\ ~file[i].nl =>
                                     pc'[file[i].body] \notin {"written", "acked"}
      <4> SUFFICES ASSUME NEW i \in 1..Len(file), file[i].whole, ~file[i].nl,
                          pc'[file[i].body] \in {"written", "acked"}
                   PROVE  FALSE
        OBVIOUS
      <4>1. pc[file[i].body] \notin {"written", "acked"} /\ file[i].body \in Calls
        BY <1>2, <2>0 DEF EndsInv
      <4>2. file[i].body = c
        BY <2>1, <3>0, <3>2, <4>1
      <4>3. QED
        BY <1>2, <3>0, <4>2 DEF RecordInv
    <3>4. ~f.nl => pc'[f.body] \notin {"written", "acked"}
      BY <2>1, <3>0, <3>2
    <3>5. \A i \in 1..Len(file) : ~file[i].nl => i = Len(file)
      BY <3>0, <3>1 DEF Readable
    <3>6. \A i \in 1..Len(file') : i \in 1..Len(file) \/ i = Len(file) + 1
      BY <3>1
    <3>7. QED
      BY <3>1, <3>3, <3>4, <3>5, <3>6 DEF EndsInv
  <2>4. QED
    BY <1>2, <2>2, <2>3, FileSteps
<1>3. QED
  BY <1>1, <1>2

\* So the record of a call that returned parses on its own, but for at most one,
\* the last, behind a record that lost its end of line.
LEMMA LegibleStep == ChainInv /\ EndsInv => AckedLegible
<1> SUFFICES ASSUME ChainInv, EndsInv, NEW i \in 1..Len(file),
                    file[i].whole, pc[file[i].body] = "acked"
             PROVE  /\ file[i].nl
                    /\ \/ i = 1 \/ file[i - 1].nl
                       \/ /\ i = Len(file)
                          /\ file[i - 1].whole /\ pc[file[i - 1].body] # "acked"
  BY DEF AckedLegible
<1>1. file[i].nl
  BY DEF EndsInv
<1>2. ASSUME i # 1, ~file[i - 1].nl
      PROVE  i = Len(file) /\ file[i - 1].whole /\ pc[file[i - 1].body] # "acked"
  <2>1. Len(file) \in Nat /\ i - 1 \in 1..Len(file) /\ i - 1 # Len(file) /\ (i - 1) + 1 = i
    BY <1>2 DEF ChainInv, TypeOK
  <2>2. file[i - 1].whole
    BY <2>1 DEF ChainInv, DamageIsLast, DamagedAtMostLast
  <2>3. pc[file[i - 1].body] # "acked" /\ Len(file) <= i
    BY <1>2, <2>1, <2>2 DEF EndsInv
  <2>4. QED
    BY <2>1, <2>2, <2>3
<1>3. QED
  BY <1>1, <1>2

\* A call that returned has exactly one whole record in the file; no call has two.
THEOREM AckedExactlyOnce == Spec => []AckedOnce
<1>1. RecordInv => AckedOnce
  BY DEF RecordInv, AckedOnce
<1>2. QED
  BY <1>1, ChainInductive, RecordInductive, PTL DEF Spec
----
(***************************************************************************)
(* The reader counts what was acknowledged before it started.              *)
(***************************************************************************)

\* A hash ends in the body it was made with.
LEMMA HashEndsInBody ==
    \A h \in Hashes, b \in Bodies : /\ Len(Hash(h, b)) = Len(h) + 1 /\ Len(h) \in Nat
                                    /\ Hash(h, b)[Len(Hash(h, b))] = b
BY DEF Hash, Hashes

\* The hash of a whole record names the call that the record is of.
Signed == \A i \in 1..Len(Visible) :
             Visible[i].whole =>
                Visible[i].body = Visible[i].hash[Len(Visible[i].hash)]

\* Every whole record that a reader sees, now and in the next state, is signed.
LEMMA RecordsSigned == (ChainInv => Signed) /\ (ChainInv' => Signed')
<1>1. ChainInv => Signed
  <2> SUFFICES ASSUME ChainInv, NEW i \in 1..Len(Visible), Visible[i].whole
               PROVE  Visible[i].body = Visible[i].hash[Len(Visible[i].hash)]
    BY DEF Signed
  <2>1. Visible[i].hash = Hash(Visible[i].prev, Visible[i].body)
    BY VisibleChained DEF Chained
  <2>2. Visible[i] \in Fragments
    BY VisibleTyped DEF ChainInv
  <2>3. Visible[i].prev \in Hashes /\ Visible[i].body \in Bodies
    BY <2>2 DEF Fragments
  <2>4. QED
    BY <2>1, <2>3, HashEndsInBody
<1>2. QED
  BY <1>1, PTL

\* A whole record keeps its place and its call through every step of a call.
LEMMA RecordsStay ==
    ASSUME ChainInv, ChainInv', NEW c \in Calls,
           Compose(c) \/ CallStep(c) \/ WritePart(c) \/ WriteRaises(c),
           NEW i \in 1..Len(Visible), Visible[i].whole
    PROVE  i \in 1..Len(Visible') /\ Visible'[i].whole /\ Visible'[i].body = Visible[i].body
<1>1. TypeOK' /\ Visible \in Seq(Fragments) /\ Visible' \in Seq(Fragments)
  BY VisibleTyped DEF ChainInv, TypeOK, Visible
<1>2. /\ Len(Visible) <= Len(Visible')
      /\ Visible'[i].whole /\ Visible'[i].hash = Visible[i].hash
  BY <1>1, VisibleGrows
<1>3. i \in 1..Len(Visible')
  BY <1>1, <1>2
<1>4. QED
  BY <1>2, <1>3, RecordsSigned DEF Signed

\* What the reader will have counted holds from the start and every step keeps it.
LEMMA FloorInductive == /\ Init => FloorInv
                        /\ ChainInv /\ RecordInv /\ FloorInv /\ [Next]_vars => FloorInv'
<1>1. Init => FloorInv
  BY DEF Init, Idle, FloorInv
<1>2. ChainInv /\ RecordInv /\ FloorInv /\ [Next]_vars => FloorInv'
  <2> SUFFICES ASSUME ChainInv, RecordInv, FloorInv, [Next]_vars
               PROVE  FloorInv'
    OBVIOUS
  <2>0. TypeOK /\ ChainInv' /\ Visible \in Seq(Fragments) /\ verify \in VerifyStates
    BY ChainInductive, VisibleTyped DEF ChainInv, TypeOK
  <2>1. ASSUME NEW c \in Calls, Compose(c) \/ CallStep(c) \/ WritePart(c) \/ WriteRaises(c)
        PROVE  FloorInv'
    <3>1. verify' = verify
      BY <2>1 DEF Compose, CallStep, WritePart, WriteRaises, Acquire, ReadLast, ReadRaises,
                  WriteLine, Return
    <3>2. \A i \in 1..Len(Visible) :
             Visible[i].whole => /\ i \in 1..Len(Visible') /\ Visible'[i].whole
                                 /\ Visible'[i].body = Visible[i].body
      BY <2>0, <2>1, RecordsStay
    <3>3. QED
      BY <3>1, <3>2 DEF FloorInv
  <2>2. CASE StartVerify
    <3>1. /\ verify'.status = "reading" /\ verify'.pos = 1 /\ verify'.count = 0
          /\ verify'.floor = Acked /\ Visible' = Visible
      BY <2>2 DEF StartVerify, Idle, Visible
    <3>2. ASSUME NEW c \in Acked
          PROVE  \E i \in 1..Len(Visible) : Visible[i].whole /\ Visible[i].body = c
      <4>1. PICK i \in 1..Len(file) : file[i].whole /\ file[i].body = c
        BY DEF Acked, RecordInv
      <4>2. i \in 1..Len(Visible) /\ Visible[i] = file[i]
        BY <2>0 DEF Visible, TypeOK
      <4>3. QED
        BY <4>1, <4>2
    <3>3. QED
      BY <3>1, <3>2 DEF FloorInv
  <2>3. CASE VerifyLine
    <3>1. verify.status = "reading" /\ Visible' = Visible
      BY <2>3 DEF VerifyLine, Visible
    <3>2. CASE verify'.status \in {"raised", "broken"}
      BY <3>2 DEF FloorInv
    <3>3. CASE verify'.status \notin {"raised", "broken"}
      <4>1. /\ verify'.status = "reading" /\ verify'.pos = verify.pos + 1
            /\ verify'.count = verify.count + 1 /\ verify'.floor = verify.floor
        BY <2>0, <2>3, <3>1, <3>3 DEF VerifyLine, VerifyStates
      <4>2. QED
        BY <3>1, <4>1 DEF FloorInv
    <3>4. QED
      BY <3>2, <3>3
  <2>4. CASE FinishVerify
    <3>1. /\ verify.status = "reading" /\ verify.pos > Len(Visible) /\ Visible' = Visible
          /\ verify'.pos = verify.pos /\ verify'.count = verify.count
          /\ verify'.floor = verify.floor /\ verify.count \in Nat
      BY <2>0, <2>4 DEF FinishVerify, Visible, VerifyStates
    <3>2. \A i \in 1..Len(Visible) : i <= verify.count
      BY <2>0, <3>1 DEF FloorInv
    <3>3. QED
      BY <3>1, <3>2 DEF FloorInv
  <2>5. CASE Crash
    BY <2>5 DEF Crash, Idle, FloorInv
  <2>6. CASE UNCHANGED vars
    <3>1. verify' = verify /\ Visible' = Visible
      BY <2>6 DEF vars, Visible
    <3>2. QED
      BY <3>1 DEF FloorInv
  <2>7. QED
    BY <2>1, <2>2, <2>3, <2>4, <2>5, <2>6 DEF Next
<1>3. QED
  BY <1>1, <1>2

\* When verify_chain answers "intact", it has counted the record of every call
\* that had returned before it started, whatever was appended, failed or grew
\* while it read (store.py:80-105).
THEOREM VerifierCountsAcked == Spec => []IntactCountsAcked
<1>1. ChainInv /\ FloorInv => IntactCountsAcked
  <2> SUFFICES ASSUME ChainInv, FloorInv, verify.status = "intact", NEW c \in verify.floor
               PROVE  \E i \in 1..verify.count : Visible[i].whole /\ Visible[i].body = c
    BY DEF IntactCountsAcked
  <2>1. PICK i \in 1..Len(Visible) : /\ Visible[i].whole /\ Visible[i].body = c
                                     /\ i <= verify.count
    BY DEF FloorInv
  <2>2. Visible \in Seq(Fragments) /\ verify.count \in Nat
    BY VisibleTyped DEF ChainInv, TypeOK, VerifyStates
  <2>3. QED
    BY <2>1, <2>2
<1>2. QED
  BY <1>1, ChainInductive, RecordInductive, FloorInductive, PTL DEF Spec
----
(***************************************************************************)
(* AuditStore implements AppendOnlyLog.  The step that puts an entry in    *)
(* the log is WriteLine, or the failed write or the death that leaves a    *)
(* fragment; what happens under the lock before it is invisible.           *)
(***************************************************************************)

\* A sequence with one element more, element by element.
LEMMA AppendIsFunction ==
    ASSUME NEW S, NEW s \in Seq(S), NEW e \in S
    PROVE  Append(s, e) = [i \in 1..(Len(s) + 1) |-> IF i = Len(s) + 1 THEN e ELSE s[i]]
<1> DEFINE t == [i \in 1..(Len(s) + 1) |-> IF i = Len(s) + 1 THEN e ELSE s[i]]
<1>1. /\ Append(s, e) \in Seq(S) /\ Len(Append(s, e)) = Len(s) + 1
      /\ \A i \in 1..Len(s) : Append(s, e)[i] = s[i]
      /\ Append(s, e)[Len(s) + 1] = e
      /\ Len(s) \in Nat
  OBVIOUS
<1>2. \A i \in 1..(Len(s) + 1) : i = Len(s) + 1 \/ i \in 1..Len(s)
  BY <1>1
<1>3. /\ t \in Seq(S) /\ Len(t) = Len(s) + 1
      /\ \A i \in 1..(Len(s) + 1) : t[i] = Append(s, e)[i]
  <2>1. \A i \in 1..Len(s) : s[i] \in S
    OBVIOUS
  <2>2. t \in [1..(Len(s) + 1) -> S]
    BY <1>2, <2>1
  <2>3. QED
    BY <1>1, <1>2, <2>2
<1> HIDE DEF t
<1>4. Append(s, e) = t
  BY <1>1, <1>3, SeqEqual
<1>5. QED
  BY <1>4 DEF t

\* The log a file stands for is unchanged, or longer by what was added to it.
LEMMA LogViewSteps ==
    ASSUME file \in Seq(Fragments)
    PROVE  /\ file' = file => LogView' = LogView
           /\ \A f \in Fragments :
                 file' = Append(file, f) =>
                    LogView' = Append(LogView, IF f.whole THEN f.body ELSE NoCall)
<1>1. file' = file => LogView' = LogView
  BY DEF LogView
<1>2. ASSUME NEW f \in Fragments, file' = Append(file, f)
      PROVE  LogView' = Append(LogView, IF f.whole THEN f.body ELSE NoCall)
  <2> DEFINE e == IF f.whole THEN f.body ELSE NoCall
  <2>1. /\ Len(file) \in Nat /\ Len(file') = Len(file) + 1
        /\ \A i \in 1..Len(file) : file'[i] = file[i]
        /\ file'[Len(file) + 1] = f
    BY <1>2
  <2>2. LogView' = [i \in 1..(Len(file) + 1) |->
                      IF i = Len(file) + 1 THEN e ELSE LogView[i]]
    <3>1. LogView' = [i \in 1..(Len(file) + 1) |->
                        IF file'[i].whole THEN file'[i].body ELSE NoCall]
      BY <2>1 DEF LogView
    <3>2. \A i \in 1..(Len(file) + 1) :
             (IF file'[i].whole THEN file'[i].body ELSE NoCall)
                = (IF i = Len(file) + 1 THEN e ELSE LogView[i])
      <4>1. \A i \in 1..(Len(file) + 1) : i = Len(file) + 1 \/ i \in 1..Len(file)
        BY <2>1
      <4>2. QED
        BY <2>1, <4>1 DEF LogView
    <3>3. QED
      BY <3>1, <3>2
  <2> HIDE DEF e
  <2>3. LogView \in Seq(Calls \cup {NoCall}) /\ Len(LogView) = Len(file)
    <3>1. \A i \in 1..Len(file) : file[i] \in Fragments
      OBVIOUS
    <3>2. \A g \in Fragments : (IF g.whole THEN g.body ELSE NoCall) \in Calls \cup {NoCall}
      BY DEF Fragments, Bodies
    <3>3. LogView \in [1..Len(file) -> Calls \cup {NoCall}]
      BY <3>1, <3>2 DEF LogView
    <3>4. QED
      BY <2>1, <3>3
  <2>4. Append(LogView, e) = [i \in 1..(Len(file) + 1) |->
                                IF i = Len(file) + 1 THEN e ELSE LogView[i]]
    <3>1. e \in Calls \cup {NoCall}
      BY DEF e, Fragments, Bodies
    <3>2. QED
      BY <2>3, <3>1, AppendIsFunction
  <2>5. QED
    BY <2>2, <2>4 DEF e
<1>3. QED
  BY <1>1, <1>2

\* A file that parses stands for a log without damage.
LEMMA ReadableNotSpoiled ==
    ASSUME file \in Seq(Fragments), Readable(file)
    PROVE  ~Log!Spoiled
<1>1. Len(file) \in Nat /\ Len(LogView) = Len(file)
  BY DEF LogView
<1>2. \A i \in 1..Len(file) : file[i] \in Fragments /\ file[i].whole
  BY DEF Readable
<1>3. \A f \in Fragments : f.body # NoCall
  BY CallsAssumption DEF Fragments, Bodies
<1>4. QED
  BY <1>1, <1>2, <1>3 DEF Log!Spoiled, LogView

\* A failed write is an append that is abandoned, with or without leaving
\* something; so is a death, for every call it takes.
LEMMA AbandonSteps ==
    ASSUME ChainInv, TypeOK', file' = file \o tail, NEW dead \in SUBSET Calls, dead # {},
           \A c \in Calls : pc[c] = "writing" => c \in dead,
           \A c \in dead : pc[c] \in Waiting \cup {"written"},
           OutcomeView' = [c \in Calls |-> IF c \in dead THEN "failed" ELSE OutcomeView[c]]
    PROVE  Log!LogNext
<1>0. /\ file \in Seq(Fragments) /\ tail \in Seq(Fragments)
      /\ pc \in [Calls -> Stages]
  BY DEF ChainInv, TypeOK
<1>1. \A c \in dead : Log!Unresolved(c)
  BY DEF Log!Unresolved, OutcomeView
<1>2. CASE tail = <<>>
  <2>1. file' = file
    BY <1>0, <1>2
  <2>2. Log!Abandon(dead)
    BY <1>0, <1>1, <2>1, LogViewSteps DEF Log!Abandon
  <2>3. QED
    BY <2>2 DEF Log!LogNext
<1>3. CASE tail # <<>>
  <2>1. PICK c \in Calls, f \in Fragments :
           /\ pc[c] = "writing" /\ f.body = c /\ tail = <<f>> /\ Readable(file)
    BY <1>3, TailFragment
  <2>2. file' = Append(file, f)
    BY <1>0, <2>1, OneMore
  <2>3. LogView' = Append(LogView, IF f.whole THEN f.body ELSE NoCall)
    BY <1>0, <2>2, LogViewSteps
  <2>4. \E entry \in {c, NoCall} : LogView' = Append(LogView, entry)
    BY <2>1, <2>3
  <2>5. c \in dead /\ OutcomeView[c] = "waiting"
    BY <2>1 DEF OutcomeView, Waiting
  <2>6. ~Log!Spoiled
    BY <1>0, <2>1, ReadableNotSpoiled
  <2>7. Log!AbandonLeaving(dead, c)
    BY <1>1, <2>4, <2>5, <2>6 DEF Log!AbandonLeaving
  <2>8. QED
    BY <2>7 DEF Log!LogNext
<1>4. QED
  BY <1>2, <1>3

\* A call that moves on before its write leaves what the log knows alone.
LEMMA WaitingIsInvisible ==
    ASSUME pc \in [Calls -> Stages], NEW c \in Calls, pc[c] \in Waiting,
           NEW s \in Waiting, pc' = [pc EXCEPT ![c] = s]
    PROVE  OutcomeView' = OutcomeView
<1>1. \A d \in Calls : pc'[d] = IF d = c THEN s ELSE pc[d]
  OBVIOUS
<1>2. \A d \in Calls : /\ pc'[d] \in Waiting <=> pc[d] \in Waiting
                       /\ pc'[d] \notin Waiting => pc'[d] = pc[d]
  BY <1>1
<1>3. QED
  BY <1>2 DEF OutcomeView

\* What every call knows after one call c ended in stage s outside Waiting.
LEMMA OutcomeOfOne ==
    ASSUME pc \in [Calls -> Stages], NEW c \in Calls,
           NEW s \in {"written", "acked", "raised"}, pc' = [pc EXCEPT ![c] = s]
    PROVE  OutcomeView' = [OutcomeView EXCEPT
                             ![c] = IF s = "written" THEN "appended"
                                    ELSE IF s = "acked" THEN "acked" ELSE "failed"]
<1>1. \A d \in Calls : pc'[d] = IF d = c THEN s ELSE pc[d]
  OBVIOUS
<1>2. s \notin Waiting
  BY DEF Waiting
<1>3. QED
  BY <1>1, <1>2 DEF OutcomeView

\* Every step of the store is a step of the log, or invisible in it.
LEMMA StepImplements ==
    ASSUME ChainInv, [Next]_vars
    PROVE  [Log!LogNext]_<<LogView, OutcomeView>>
<1>0. /\ TypeOK' /\ file \in Seq(Fragments) /\ tail \in Seq(Fragments)
      /\ pc \in [Calls -> Stages]
  BY TypeInductive DEF ChainInv, TypeOK
<1>1. ASSUME NEW c \in Calls, Compose(c) \/ Acquire(c) \/ ReadLast(c) \/ WritePart(c)
      PROVE  UNCHANGED <<LogView, OutcomeView>>
  <2>1. file' = file
    BY <1>1 DEF Compose, Acquire, ReadLast, WritePart
  <2>2. PICK s \in Waiting : pc[c] \in Waiting /\ pc' = [pc EXCEPT ![c] = s]
    BY <1>1 DEF Compose, Acquire, ReadLast, WritePart, Waiting
  <2>3. QED
    BY <1>0, <2>1, <2>2, WaitingIsInvisible, LogViewSteps
<1>2. ASSUME NEW c \in Calls, WriteLine(c)
      PROVE  Log!LogNext
  <2> DEFINE f == Line(c, TRUE, TRUE)
  <2>1. f \in Fragments /\ f.whole /\ f.body = c
    BY LineTyped DEF ChainInv, TypeOK, Line
  <2>2. file' = Append(file, f) /\ Readable(file) /\ pc' = [pc EXCEPT ![c] = "written"]
    BY <1>2 DEF WriteLine, ChainInv, FreshPrev
  <2> HIDE DEF f
  <2>3. LogView' = Append(LogView, c)
    BY <1>0, <2>1, <2>2, LogViewSteps
  <2>4. OutcomeView' = [OutcomeView EXCEPT ![c] = "appended"]
    BY <1>0, <2>2, OutcomeOfOne
  <2>5. OutcomeView[c] = "waiting"
    BY <1>2 DEF WriteLine, OutcomeView, Waiting
  <2>6. Log!Commit(c)
    BY <1>0, <2>2, <2>3, <2>4, <2>5, ReadableNotSpoiled DEF Log!Commit
  <2>7. QED
    BY <2>6 DEF Log!LogNext
<1>3. ASSUME NEW c \in Calls, Return(c)
      PROVE  Log!LogNext
  <2>1. OutcomeView' = [OutcomeView EXCEPT ![c] = "acked"]
    BY <1>0, <1>3, OutcomeOfOne DEF Return
  <2>2. OutcomeView[c] = "appended" /\ file' = file
    BY <1>3 DEF Return, OutcomeView, Waiting
  <2>3. Log!Acknowledge(c)
    BY <1>0, <2>1, <2>2, LogViewSteps DEF Log!Acknowledge
  <2>4. QED
    BY <2>3 DEF Log!LogNext
<1>4. ASSUME NEW c \in Calls, ReadRaises(c) \/ WriteRaises(c)
      PROVE  Log!LogNext
  <2>1. /\ pc' = [pc EXCEPT ![c] = "raised"] /\ pc[c] \in Holding
        /\ pc[c] \in Waiting
    BY <1>4 DEF ReadRaises, WriteRaises, Holding, Waiting
  <2>2. OutcomeView' = [d \in Calls |-> IF d \in {c} THEN "failed" ELSE OutcomeView[d]]
    <3>1. OutcomeView' = [OutcomeView EXCEPT ![c] = "failed"]
      BY <1>0, <2>1, OutcomeOfOne
    <3>2. QED
      BY <3>1 DEF OutcomeView
  <2>3. \A d \in Calls : pc[d] = "writing" => d \in {c}
    BY <2>1 DEF ChainInv, LockHeld, Holding
  <2>4. file' = file \o tail
    <3>1. CASE WriteRaises(c)
      BY <3>1 DEF WriteRaises
    <3>2. CASE ReadRaises(c)
      <4>1. \A d \in Calls : pc[d] # "writing"
        BY <2>3, <3>2 DEF ReadRaises
      <4>2. tail = <<>>
        BY <4>1 DEF ChainInv, TailOwned
      <4>3. QED
        BY <1>0, <3>2, <4>2 DEF ReadRaises
    <3>3. QED
      BY <1>4, <3>1, <3>2
  <2>5. QED
    BY <1>0, <2>1, <2>2, <2>3, <2>4, AbandonSteps
<1>5. ASSUME Crash
      PROVE  Log!LogNext \/ UNCHANGED <<LogView, OutcomeView>>
  <2> DEFINE dead == {c \in Calls : pc[c] \in InAppend}
  <2>1. \A c \in Calls : pc'[c] = IF c \in dead THEN "killed" ELSE pc[c]
    BY <1>5 DEF Crash
  <2>2. OutcomeView' = [c \in Calls |-> IF c \in dead THEN "failed" ELSE OutcomeView[c]]
    BY <2>1 DEF OutcomeView, Waiting
  <2>3. /\ \A c \in Calls : pc[c] = "writing" => c \in dead
        /\ \A c \in dead : pc[c] \in Waiting \cup {"written"}
    BY DEF InAppend, Waiting
  <2>4. file' = file \o tail
    BY <1>5 DEF Crash
  <2>5. CASE dead = {}
    <3>1. tail = <<>>
      BY <2>3, <2>5 DEF ChainInv, TailOwned
    <3>2. file' = file
      BY <1>0, <2>4, <3>1
    <3>3. OutcomeView' = OutcomeView
      BY <2>2, <2>5 DEF OutcomeView
    <3>4. QED
      BY <1>0, <3>2, <3>3, LogViewSteps
  <2>6. CASE dead # {}
    <3>1. dead \in SUBSET Calls
      OBVIOUS
    <3> HIDE DEF dead
    <3>2. QED
      BY <1>0, <2>2, <2>3, <2>4, <2>6, <3>1, AbandonSteps
  <2>7. QED
    BY <2>5, <2>6
<1>6. ASSUME UNCHANGED <<pc, file>>
      PROVE  UNCHANGED <<LogView, OutcomeView>>
  BY <1>6 DEF LogView, OutcomeView
<1>7. QED
  BY <1>1, <1>2, <1>3, <1>4, <1>5, <1>6 DEF Next, CallStep, StartVerify, VerifyLine,
     FinishVerify, vars

\* The store, with its file, lock and torn writes, implements the append-only
\* log that the gateway appends to.
THEOREM StoreImplementsLog == Spec => ImplementsLog
<1>1. Init => Log!LogInit
  <2> SUFFICES ASSUME Init
               PROVE  Log!LogInit
    OBVIOUS
  <2>1. LogView = <<>>
    BY DEF Init, LogView
  <2>2. OutcomeView = [c \in Calls |-> "waiting"]
    BY DEF Init, OutcomeView, Waiting
  <2>3. QED
    BY <2>1, <2>2 DEF Log!LogInit
<1>2. ChainInv /\ [Next]_vars => [Log!LogNext]_<<LogView, OutcomeView>>
  BY StepImplements
<1>3. QED
  BY <1>1, <1>2, ChainInductive, PTL DEF Spec, ImplementsLog, Log!LogSpec, Log!logVars
----
\* A longer log still has what it had, where it had it.
LEMMA LongerLog ==
    ASSUME NEW S, NEW old \in Seq(S), NEW entry \in S
    PROVE  /\ Append(old, entry) \in Seq(S)
           /\ Len(Append(old, entry)) = Len(old) + 1
           /\ \A i \in 1..Len(old) : i \in 1..Len(Append(old, entry))
                                     /\ Append(old, entry)[i] = old[i]
           /\ Append(old, entry)[Len(old) + 1] = entry
  OBVIOUS

\* The abstract log keeps its promise: its states are typed, and no step takes
\* the record of an appended call out of it.
LEMMA LogInductive ==
    /\ Log!LogInit => Log!LogTypeOK /\ Log!AckedIsLogged
    /\ Log!LogTypeOK /\ Log!AckedIsLogged /\ [Log!LogNext]_<<LogView, OutcomeView>>
          => Log!LogTypeOK' /\ Log!AckedIsLogged'
<1>1. Log!LogInit => Log!LogTypeOK /\ Log!AckedIsLogged
  BY DEF Log!LogInit, Log!LogTypeOK, Log!AckedIsLogged, Log!Outcomes
<1>2. ASSUME Log!LogTypeOK, Log!AckedIsLogged, [Log!LogNext]_<<LogView, OutcomeView>>
      PROVE  Log!LogTypeOK' /\ Log!AckedIsLogged'
  <2> DEFINE Entries == Calls \cup {NoCall}
  <2>0. LogView \in Seq(Entries) /\ OutcomeView \in [Calls -> Log!Outcomes]
    BY <1>2 DEF Log!LogTypeOK
  <2>1. ASSUME NEW c \in Calls, Log!Commit(c)
        PROVE  Log!LogTypeOK' /\ Log!AckedIsLogged'
    <3>1. /\ LogView' = Append(LogView, c)
          /\ OutcomeView' = [OutcomeView EXCEPT ![c] = "appended"]
      BY <2>1 DEF Log!Commit
    <3>2. Log!LogTypeOK'
      BY <2>0, <3>1, LongerLog DEF Log!LogTypeOK, Log!Outcomes
    <3>3. Log!AckedIsLogged'
      BY <1>2, <2>0, <3>1, LongerLog DEF Log!AckedIsLogged
    <3>4. QED
      BY <3>2, <3>3
  <2>2. ASSUME NEW c \in Calls, Log!Acknowledge(c)
        PROVE  Log!LogTypeOK' /\ Log!AckedIsLogged'
    BY <1>2, <2>0, <2>2 DEF Log!Acknowledge, Log!LogTypeOK, Log!AckedIsLogged, Log!Outcomes
  <2>3. ASSUME NEW dead \in SUBSET Calls, Log!Abandon(dead)
        PROVE  Log!LogTypeOK' /\ Log!AckedIsLogged'
    BY <1>2, <2>0, <2>3 DEF Log!Abandon, Log!LogTypeOK, Log!AckedIsLogged, Log!Outcomes
  <2>4. ASSUME NEW dead \in SUBSET Calls, NEW c \in Calls, Log!AbandonLeaving(dead, c)
        PROVE  Log!LogTypeOK' /\ Log!AckedIsLogged'
    <3>1. PICK entry \in {c, NoCall} : LogView' = Append(LogView, entry)
      BY <2>4 DEF Log!AbandonLeaving
    <3>2. OutcomeView' = [d \in Calls |-> IF d \in dead THEN "failed" ELSE OutcomeView[d]]
      BY <2>4 DEF Log!AbandonLeaving
    <3>3. Log!LogTypeOK'
      BY <2>0, <3>1, <3>2, LongerLog DEF Log!LogTypeOK, Log!Outcomes
    <3>4. Log!AckedIsLogged'
      BY <1>2, <2>0, <3>1, <3>2, LongerLog DEF Log!AckedIsLogged
    <3>5. QED
      BY <3>3, <3>4
  <2>5. CASE UNCHANGED <<LogView, OutcomeView>>
    BY <1>2, <2>5 DEF Log!LogTypeOK, Log!AckedIsLogged
  <2>6. QED
    BY <1>2, <2>1, <2>2, <2>3, <2>4, <2>5 DEF Log!LogNext
<1>3. QED
  BY <1>1, <1>2

\* What append returned for is in the file for ever, through torn writes and
\* deaths, and on a line of its own, but for at most one record, the last, that
\* shares the line of a record that lost its end of line (store.py:51-56, 72-77).
THEOREM StoreForgetsNothing == Spec => [](Log!AckedIsLogged /\ AckedLegible)
<1>1. Log!LogSpec => [](Log!LogTypeOK /\ Log!AckedIsLogged)
  BY LogInductive, PTL DEF Log!LogSpec, Log!logVars
<1>2. Spec => []AckedLegible
  BY ChainInductive, RecordInductive, EndsInductive, LegibleStep, PTL DEF Spec
<1>3. QED
  BY <1>1, <1>2, StoreImplementsLog, PTL DEF ImplementsLog
=============================================================================
