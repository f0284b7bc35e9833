--------------------------- MODULE HostQueue_proofs ---------------------------
(***************************************************************************)
(* Proofs about the queue of the host build, for every length and any       *)
(* finite sets of senders and receivers.                                     *)
(***************************************************************************)
EXTENDS HostQueue, LeadsToRules, FiniteSetTheorems, SequenceTheorems, TLAPS

-----------------------------------------------------------------------------
(* The ring *)

LEMMA Wrap ==
    ASSUME NEW L \in Nat \ {0}, NEW x \in Nat, x < 2 * L
    PROVE  x % L = IF x < L THEN x ELSE x - L
  <1>1. CASE x < L
    BY <1>1, Z3
  <1>2. CASE x >= L
    BY <1>2, Z3
  <1> QED
    BY <1>1, <1>2

LEMMA AfterIs ==
    ASSUME NEW s \in Slot
    PROVE  /\ After(s) \in Slot
           /\ After(s) = IF s + 1 = Length THEN 0 ELSE s + 1
  <1>1. s \in Nat /\ s < Length /\ s + 1 < 2 * Length /\ Length \in Nat \ {0} /\ s + 1 \in Nat
    BY LengthAssumption DEF Slot
  <1>2. PICK x \in Nat : x = s + 1
    BY <1>1
  <1>3. x % Length = IF x < Length THEN x ELSE x - Length
    BY <1>1, <1>2, Wrap
  <1> QED
    BY <1>1, <1>2, <1>3 DEF After, Slot

-----------------------------------------------------------------------------
(* The threads at a place *)

Place == {"out", "lock", "copy", "advance", "unlock", "release"}
Critical == {"copy", "advance", "unlock"}

LEMMA Finite ==
    ASSUME NEW S, IsFiniteSet(S), NEW P
    PROVE  /\ IsFiniteSet({t \in S : pc[t] \in P})
           /\ At(S, P) \in Nat
  <1>1. IsFiniteSet({t \in S : pc[t] \in P})
    BY FS_Subset
  <1> QED
    BY <1>1, FS_CardinalityType DEF At

LEMMA Moved ==
    ASSUME NEW S, IsFiniteSet(S), S \subseteq Thread, NEW P, NEW t \in Thread, NEW to,
           pc \in [Thread -> Place], pc' = [pc EXCEPT ![t] = to]
    PROVE  At(S, P)' = IF t \notin S THEN At(S, P)
                       ELSE IF to \in P
                            THEN IF pc[t] \in P THEN At(S, P) ELSE At(S, P) + 1
                            ELSE IF pc[t] \in P THEN At(S, P) - 1 ELSE At(S, P)
  <1> DEFINE A == {u \in S : pc[u] \in P}
  <1>1. IsFiniteSet(A)
    BY Finite
  <1>2. At(S, P) = Cardinality(A) /\ At(S, P)' = Cardinality({u \in S : pc'[u] \in P})
    BY DEF At
  <1>3. {u \in S : pc'[u] \in P} = IF t \notin S THEN A ELSE IF to \in P THEN A \cup {t} ELSE A \ {t}
    OBVIOUS
  <1>4. t \in S => (t \in A <=> pc[t] \in P)
    OBVIOUS
  <1> HIDE DEF A
  <1>5. /\ Cardinality(A \cup {t}) = IF t \in A THEN Cardinality(A) ELSE Cardinality(A) + 1
        /\ Cardinality(A \ {t}) = IF t \in A THEN Cardinality(A) - 1 ELSE Cardinality(A)
    BY <1>1, FS_AddElement, FS_RemoveElement
  <1> QED
    BY <1>2, <1>3, <1>4, <1>5

(* Who is somewhere is counted. *)
LEMMA Counted ==
    ASSUME NEW S, IsFiniteSet(S), NEW P, NEW t \in S, pc[t] \in P
    PROVE  At(S, P) > 0
  <1> DEFINE A == {u \in S : pc[u] \in P}
  <1>1. IsFiniteSet(A) /\ t \in A /\ At(S, P) = Cardinality(A) /\ At(S, P) \in Nat
    BY Finite DEF At
  <1>2. Cardinality(A) # 0
    BY <1>1, FS_EmptySet
  <1> QED
    BY <1>1, <1>2

-----------------------------------------------------------------------------
(* The invariant *)

Exclusive ==
    /\ \A t \in Thread : t \in mtx <=> pc[t] \in Critical
    /\ \A t, u \in mtx : t = u

Copied == \A t \in Senders : pc[t] = "advance" => buf[head] = item[t]

Inv == TypeOK /\ SlotsAccounted /\ Exclusive /\ Copied

LEMMA InvInit == Init => Inv
  <1> SUFFICES ASSUME Init PROVE Inv
    OBVIOUS
  <1>1. Length \in Nat /\ Length > 0 /\ MaxSends \in Nat /\ 0 \in Slot
    BY LengthAssumption, MaxSendsAssumption DEF Slot
  <1>2. TypeOK
    BY <1>1 DEF Init, TypeOK
  <1>3. ASSUME NEW S, NEW P, S \subseteq Thread, "out" \notin P
        PROVE  At(S, P) = 0
    <2>1. {t \in S : pc[t] \in P} = {}
      BY <1>3 DEF Init
    <2> QED
      BY <2>1, FS_EmptySet DEF At
  <1>4. /\ At(Senders, Before) = 0 /\ At(Receivers, Before) = 0
        /\ At(Senders, Behind) = 0 /\ At(Receivers, Behind) = 0
    BY <1>3 DEF Thread, Before, Behind
  <1>5. 0 = (0 + 0) % Length
    BY <1>1, Wrap
  <1>6. SlotsAccounted
    BY <1>1, <1>4, <1>5 DEF Init, SlotsAccounted
  <1> QED
    BY <1>2, <1>6 DEF Init, Inv, Exclusive, Copied, Critical, Thread

(* What the accounts say of the numbers. *)
LEMMA Accounts ==
    ASSUME Inv
    PROVE  /\ At(Senders, Before) \in Nat /\ At(Receivers, Before) \in Nat
           /\ At(Senders, Behind) \in Nat /\ At(Receivers, Behind) \in Nat
           /\ space \in Nat /\ items \in Nat /\ count \in Nat /\ Length \in Nat /\ Length > 0
           /\ pc \in [Thread -> Place]
           /\ space + At(Senders, Before) + count + At(Receivers, Behind) = Length
           /\ items + At(Senders, Behind) + At(Receivers, Before) = count
  <1>1. /\ At(Senders, Before) \in Nat /\ At(Receivers, Before) \in Nat
        /\ At(Senders, Behind) \in Nat /\ At(Receivers, Behind) \in Nat
    BY Finite, ThreadsAssumption
  <1>2. space \in Nat /\ items \in Nat /\ count \in Nat /\ Length \in Nat /\ Length > 0
    BY LengthAssumption DEF Inv, TypeOK
  <1> QED
    BY <1>1, <1>2 DEF Inv, TypeOK, SlotsAccounted, Place

(* What a step does to the accounts. *)
LEMMA SenderMoves ==
    ASSUME Inv, NEW t \in Senders, NEW from, NEW to, Goto(t, from, to)
    PROVE  /\ pc[t] = from
           /\ At(Receivers, Before)' = At(Receivers, Before)
           /\ At(Receivers, Behind)' = At(Receivers, Behind)
           /\ \A P \in {Before, Behind} :
                At(Senders, P)' = IF to \in P
                                  THEN IF from \in P THEN At(Senders, P) ELSE At(Senders, P) + 1
                                  ELSE IF from \in P THEN At(Senders, P) - 1 ELSE At(Senders, P)
  <1>1. /\ t \in Thread /\ t \notin Receivers /\ pc[t] = from /\ pc' = [pc EXCEPT ![t] = to]
        /\ Senders \subseteq Thread /\ Receivers \subseteq Thread
        /\ IsFiniteSet(Senders) /\ IsFiniteSet(Receivers)
    BY ThreadsAssumption DEF Goto, Thread
  <1>2. pc \in [Thread -> Place]
    BY Accounts
  <1>3. At(Receivers, Before)' = At(Receivers, Before)
        /\ At(Receivers, Behind)' = At(Receivers, Behind)
    BY <1>1, <1>2, Moved
  <1>4. ASSUME NEW P
        PROVE  At(Senders, P)' = IF to \in P
                                  THEN IF from \in P THEN At(Senders, P) ELSE At(Senders, P) + 1
                                  ELSE IF from \in P THEN At(Senders, P) - 1 ELSE At(Senders, P)
    BY <1>1, <1>2, Moved
  <1> QED
    BY <1>1, <1>3, <1>4

LEMMA ReceiverMoves ==
    ASSUME Inv, NEW t \in Receivers, NEW from, NEW to, Goto(t, from, to)
    PROVE  /\ pc[t] = from
           /\ At(Senders, Before)' = At(Senders, Before)
           /\ At(Senders, Behind)' = At(Senders, Behind)
           /\ \A P \in {Before, Behind} :
                At(Receivers, P)' = IF to \in P
                                    THEN IF from \in P THEN At(Receivers, P) ELSE At(Receivers, P) + 1
                                    ELSE IF from \in P THEN At(Receivers, P) - 1 ELSE At(Receivers, P)
  <1>1. /\ t \in Thread /\ t \notin Senders /\ pc[t] = from /\ pc' = [pc EXCEPT ![t] = to]
        /\ Senders \subseteq Thread /\ Receivers \subseteq Thread
        /\ IsFiniteSet(Senders) /\ IsFiniteSet(Receivers)
    BY ThreadsAssumption DEF Goto, Thread
  <1>2. pc \in [Thread -> Place]
    BY Accounts
  <1>3. At(Senders, Before)' = At(Senders, Before) /\ At(Senders, Behind)' = At(Senders, Behind)
    BY <1>1, <1>2, Moved
  <1>4. ASSUME NEW P
        PROVE  At(Receivers, P)' = IF to \in P
                                   THEN IF from \in P THEN At(Receivers, P) ELSE At(Receivers, P) + 1
                                   ELSE IF from \in P THEN At(Receivers, P) - 1 ELSE At(Receivers, P)
    BY <1>1, <1>2, Moved
  <1> QED
    BY <1>1, <1>3, <1>4

(* Lock and Unlock move within a side of a call. *)
LEMMA MutexMoves ==
    ASSUME Inv, NEW t \in Thread, Lock(t) \/ Unlock(t)
    PROVE  /\ At(Senders, Before)' = At(Senders, Before)
           /\ At(Senders, Behind)' = At(Senders, Behind)
           /\ At(Receivers, Before)' = At(Receivers, Before)
           /\ At(Receivers, Behind)' = At(Receivers, Behind)
  <1>1. Goto(t, "lock", "copy") \/ Goto(t, "unlock", "release")
    BY DEF Lock, Unlock
  <1>2. CASE t \in Senders
    BY <1>1, <1>2, SenderMoves DEF Before, Behind
  <1>3. CASE t \in Receivers
    BY <1>1, <1>3, ReceiverMoves DEF Before, Behind
  <1> QED
    BY <1>2, <1>3 DEF Thread

(* The two sums are kept by every step, *)
Sums ==
    /\ space + At(Senders, Before) + count + At(Receivers, Behind) = Length
    /\ items + At(Senders, Behind) + At(Receivers, Before) = count

Numbers == space \in Nat /\ items \in Nat /\ count \in Nat

LEMMA SumsKept ==
    ASSUME Inv, [Next]_vars
    PROVE  /\ Sums'
           /\ space' \in 0..Length /\ items' \in 0..Length /\ count' \in 0..Length
  <1> DEFINE sb == At(Senders, Before)
             sd == At(Senders, Behind)
             rb == At(Receivers, Before)
             rd == At(Receivers, Behind)
  <1>1. /\ sb \in Nat /\ sd \in Nat /\ rb \in Nat /\ rd \in Nat
        /\ space \in Nat /\ items \in Nat /\ count \in Nat /\ Length \in Nat
        /\ space + sb + count + rd = Length
        /\ items + sd + rb = count
    BY Accounts
  <1>2. sb' \in Nat /\ sd' \in Nat /\ rb' \in Nat /\ rd' \in Nat
    <2>1. ASSUME NEW S, IsFiniteSet(S), NEW P
          PROVE  Cardinality({t \in S : pc'[t] \in P}) \in Nat
      BY <2>1, FS_Subset, FS_CardinalityType
    <2> QED
      BY <2>1, ThreadsAssumption DEF At
  <1>3. SUFFICES (Sums /\ Numbers)'
    BY <1>1, <1>2 DEF Sums, Numbers
  <1>4. ASSUME NEW t \in Senders, TakeSpace(t)
        PROVE  (Sums /\ Numbers)'
    <2>1. Goto(t, "out", "lock") /\ space' = space - 1 /\ space > 0 /\ items' = items /\ count' = count
      BY <1>4 DEF TakeSpace
    <2>2. sb' = sb + 1 /\ sd' = sd /\ rb' = rb /\ rd' = rd
      BY <2>1, SenderMoves DEF Before, Behind
    <2> QED
      BY <1>1, <2>1, <2>2 DEF Sums, Numbers
  <1>5. ASSUME NEW t \in Senders, CopyIn(t)
        PROVE  (Sums /\ Numbers)'
    <2>1. Goto(t, "copy", "advance") /\ space' = space /\ items' = items /\ count' = count
      BY <1>5 DEF CopyIn
    <2>2. sb' = sb /\ sd' = sd /\ rb' = rb /\ rd' = rd
      BY <2>1, SenderMoves DEF Before, Behind
    <2> QED
      BY <1>1, <2>1, <2>2 DEF Sums, Numbers
  <1>6. ASSUME NEW t \in Senders, AdvanceHead(t)
        PROVE  (Sums /\ Numbers)'
    <2>1. Goto(t, "advance", "unlock") /\ space' = space /\ items' = items /\ count' = count + 1
      BY <1>6 DEF AdvanceHead
    <2>2. sb' = sb - 1 /\ sd' = sd + 1 /\ rb' = rb /\ rd' = rd
      BY <2>1, SenderMoves DEF Before, Behind
    <2> QED
      BY <1>1, <2>1, <2>2 DEF Sums, Numbers
  <1>7. ASSUME NEW t \in Senders, GiveItems(t)
        PROVE  (Sums /\ Numbers)'
    <2>1. Goto(t, "release", "out") /\ space' = space /\ items' = items + 1 /\ count' = count
      BY <1>7 DEF GiveItems
    <2>2. sb' = sb /\ sd' = sd - 1 /\ rb' = rb /\ rd' = rd
      BY <2>1, SenderMoves DEF Before, Behind
    <2> QED
      BY <1>1, <2>1, <2>2 DEF Sums, Numbers
  <1>8. ASSUME NEW t \in Receivers, TakeItems(t)
        PROVE  (Sums /\ Numbers)'
    <2>1. Goto(t, "out", "lock") /\ space' = space /\ items > 0 /\ items' = items - 1 /\ count' = count
      BY <1>8 DEF TakeItems
    <2>2. sb' = sb /\ sd' = sd /\ rb' = rb + 1 /\ rd' = rd
      BY <2>1, ReceiverMoves DEF Before, Behind
    <2> QED
      BY <1>1, <2>1, <2>2 DEF Sums, Numbers
  <1>9. ASSUME NEW t \in Receivers, CopyOut(t)
        PROVE  (Sums /\ Numbers)'
    <2>1. Goto(t, "copy", "advance") /\ space' = space /\ items' = items /\ count' = count
      BY <1>9 DEF CopyOut
    <2>2. sb' = sb /\ sd' = sd /\ rb' = rb /\ rd' = rd
      BY <2>1, ReceiverMoves DEF Before, Behind
    <2> QED
      BY <1>1, <2>1, <2>2 DEF Sums, Numbers
  <1>10. ASSUME NEW t \in Receivers, AdvanceTail(t)
         PROVE  (Sums /\ Numbers)'
    <2>1. Goto(t, "advance", "unlock") /\ space' = space /\ items' = items /\ count' = count - 1
      BY <1>10 DEF AdvanceTail
    <2>2. sb' = sb /\ sd' = sd /\ rb' = rb - 1 /\ rd' = rd + 1
      BY <2>1, ReceiverMoves DEF Before, Behind
    <2>3. rb > 0
      BY <2>1, Counted, ThreadsAssumption DEF Goto, Before
    <2> QED
      BY <1>1, <2>1, <2>2, <2>3 DEF Sums, Numbers
  <1>11. ASSUME NEW t \in Receivers, GiveSpace(t)
         PROVE  (Sums /\ Numbers)'
    <2>1. Goto(t, "release", "out") /\ space' = space + 1 /\ items' = items /\ count' = count
      BY <1>11 DEF GiveSpace
    <2>2. sb' = sb /\ sd' = sd /\ rb' = rb /\ rd' = rd - 1
      BY <2>1, ReceiverMoves DEF Before, Behind
    <2> QED
      BY <1>1, <2>1, <2>2 DEF Sums, Numbers
  <1>12. ASSUME NEW t \in Thread, Lock(t) \/ Unlock(t)
         PROVE  (Sums /\ Numbers)'
    <2>1. sb' = sb /\ sd' = sd /\ rb' = rb /\ rd' = rd
      BY <1>12, MutexMoves
    <2>2. space' = space /\ items' = items /\ count' = count
      BY <1>12 DEF Lock, Unlock
    <2> QED
      BY <1>1, <2>1, <2>2 DEF Sums, Numbers
  <1>13. ASSUME pc' = pc, space' = space, items' = items, count' = count
         PROVE  (Sums /\ Numbers)'
    <2>1. sb' = sb /\ sd' = sd /\ rb' = rb /\ rd' = rd
      BY <1>13 DEF At
    <2> QED
      BY <1>1, <1>13, <2>1 DEF Sums, Numbers
  <1> QED
    BY <1>4, <1>5, <1>6, <1>7, <1>8, <1>9, <1>10, <1>11, <1>12, <1>13
    DEF Next, SendStep, RecvStep, SendFull, RecvEmpty, vars

(* The slot n places behind a. *)
LEMMA RingIs ==
    ASSUME NEW a \in Slot, NEW n \in 0..Length
    PROVE  /\ (a + n) % Length \in Slot
           /\ (a + n) % Length = IF a + n < Length THEN a + n ELSE a + n - Length
  <1>1. a \in Nat /\ a < Length /\ n \in Nat /\ n <= Length /\ Length \in Nat \ {0}
    BY LengthAssumption DEF Slot
  <1>2. PICK x \in Nat : x = a + n /\ x < 2 * Length
    BY <1>1
  <1>3. x % Length = IF x < Length THEN x ELSE x - Length
    BY <1>1, <1>2, Wrap
  <1> QED
    BY <1>1, <1>2, <1>3 DEF Slot

LEMMA TypesKept ==
    ASSUME Inv, [Next]_vars
    PROVE  TypeOK'
  <1>1. space' \in 0..Length /\ items' \in 0..Length /\ count' \in 0..Length
    BY SumsKept
  <1>2. TypeOK /\ After(head) \in Slot /\ After(tail) \in Slot /\ MaxSends \in Nat
    BY AfterIs, MaxSendsAssumption DEF Inv, TypeOK
  <1>3. mtx' \subseteq Thread
    BY <1>2 DEF TypeOK, Next, SendStep, RecvStep, TakeSpace, SendFull, CopyIn, AdvanceHead,
               GiveItems, TakeItems, RecvEmpty, CopyOut, AdvanceTail, GiveSpace, Lock, Unlock, vars
  <1>4. pc' \in [Thread -> Place]
    BY <1>2 DEF TypeOK, Place, Next, SendStep, RecvStep, TakeSpace, SendFull, CopyIn, AdvanceHead,
               GiveItems, TakeItems, RecvEmpty, CopyOut, AdvanceTail, GiveSpace, Lock, Unlock, vars,
               Goto
  <1>5. head' \in Slot /\ tail' \in Slot
    BY <1>2 DEF TypeOK, Next, SendStep, RecvStep, TakeSpace, SendFull, CopyIn, AdvanceHead,
               GiveItems, TakeItems, RecvEmpty, CopyOut, AdvanceTail, GiveSpace, Lock, Unlock, vars
  <1>6. buf' \in [Slot -> Nat] /\ item' \in [Thread -> Nat] /\ sends' \in 0..MaxSends
    BY <1>2 DEF TypeOK, Thread, Next, SendStep, RecvStep, TakeSpace, SendFull, CopyIn, AdvanceHead,
               GiveItems, TakeItems, RecvEmpty, CopyOut, AdvanceTail, GiveSpace, Lock, Unlock, vars
  <1> QED
    BY <1>1, <1>3, <1>4, <1>5, <1>6 DEF TypeOK, Place

(* head is count slots before tail. *)
LEMMA RingKept ==
    ASSUME Inv, [Next]_vars
    PROVE  head' = (tail' + count') % Length
  <1>1. /\ head \in Slot /\ tail \in Slot /\ count \in 0..Length /\ head = (tail + count) % Length
        /\ Length \in Nat \ {0}
    BY LengthAssumption DEF Inv, TypeOK, SlotsAccounted
  <1>2. count' \in 0..Length
    BY SumsKept
  <1>3. head = IF tail + count < Length THEN tail + count ELSE tail + count - Length
    BY <1>1, RingIs
  <1>4. /\ After(head) \in Slot /\ After(head) = IF head + 1 = Length THEN 0 ELSE head + 1
        /\ After(tail) \in Slot /\ After(tail) = IF tail + 1 = Length THEN 0 ELSE tail + 1
    BY <1>1, AfterIs
  <1>5. CASE head' = After(head) /\ tail' = tail /\ count' = count + 1
    <2>1. (tail + count') % Length = IF tail + count' < Length THEN tail + count'
                                     ELSE tail + count' - Length
      BY <1>1, <1>2, RingIs
    <2> QED
      BY <1>1, <1>2, <1>3, <1>4, <1>5, <2>1 DEF Slot
  <1>6. CASE head' = head /\ tail' = After(tail) /\ count' = count - 1
    <2>1. (tail' + count') % Length = IF tail' + count' < Length THEN tail' + count'
                                      ELSE tail' + count' - Length
      BY <1>2, <1>4, <1>6, RingIs
    <2> QED
      BY <1>1, <1>2, <1>3, <1>4, <1>6, <2>1 DEF Slot
  <1>7. CASE UNCHANGED <<head, tail, count>>
    BY <1>1, <1>7
  <1> QED
    BY <1>5, <1>6, <1>7
    DEF Next, SendStep, RecvStep, TakeSpace, SendFull, CopyIn, AdvanceHead, GiveItems, TakeItems,
        RecvEmpty, CopyOut, AdvanceTail, GiveSpace, Lock, Unlock, vars

LEMMA ExclusiveKept ==
    ASSUME Inv, [Next]_vars
    PROVE  Exclusive'
  <1>1. /\ pc \in [Thread -> Place] /\ mtx \subseteq Thread
        /\ \A t \in Thread : t \in mtx <=> pc[t] \in Critical
        /\ \A t, u \in mtx : t = u
    BY DEF Inv, TypeOK, Exclusive, Place
  <1>2. ASSUME NEW t \in Thread, Lock(t)
        PROVE  Exclusive'
    BY <1>1, <1>2 DEF Exclusive, Lock, Goto, Critical
  <1>3. ASSUME NEW t \in Thread, Unlock(t)
        PROVE  Exclusive'
    BY <1>1, <1>3 DEF Exclusive, Unlock, Goto, Critical
  <1>4. ASSUME NEW t \in Thread, NEW from, NEW to, Goto(t, from, to), mtx' = mtx,
               from \in Critical <=> to \in Critical
        PROVE  Exclusive'
    BY <1>1, <1>4 DEF Exclusive, Goto
  <1>5. CASE UNCHANGED <<mtx, pc>>
    BY <1>1, <1>5 DEF Exclusive
  <1>6. ASSUME NEW t \in Senders, SendStep(t)
        PROVE  Exclusive'
    BY <1>4, <1>5, <1>6 DEF SendStep, TakeSpace, SendFull, CopyIn, AdvanceHead, GiveItems, Thread,
                            Critical
  <1>7. ASSUME NEW t \in Receivers, RecvStep(t)
        PROVE  Exclusive'
    BY <1>4, <1>5, <1>7 DEF RecvStep, TakeItems, RecvEmpty, CopyOut, AdvanceTail, GiveSpace, Thread,
                            Critical
  <1> QED
    BY <1>2, <1>3, <1>5, <1>6, <1>7 DEF Next, vars

(* What a sender has copied stays until it moves head: nobody else is in.   *)
LEMMA CopiedKept ==
    ASSUME Inv, [Next]_vars
    PROVE  Copied'
  <1>1. /\ pc \in [Thread -> Place] /\ item \in [Thread -> Nat] /\ buf \in [Slot -> Nat]
        /\ head \in Slot
        /\ \A t \in Thread : t \in mtx <=> pc[t] \in Critical
        /\ \A t, u \in mtx : t = u
        /\ \A t \in Senders : pc[t] = "advance" => buf[head] = item[t]
        /\ Senders \subseteq Thread /\ Receivers \subseteq Thread
        /\ Senders \cap Receivers = {}
    BY ThreadsAssumption DEF Inv, TypeOK, Exclusive, Copied, Place, Thread
  <1>2. ASSUME NEW u \in Senders, pc'[u] = "advance"
        PROVE  buf'[head'] = item'[u]
    <2>1. ASSUME NEW t \in Senders, CopyIn(t)
          PROVE  buf'[head'] = item'[u]
      <3>1. u = t
        BY <1>1, <1>2, <2>1 DEF CopyIn, Goto, Critical
      <3> QED
        BY <1>1, <2>1, <3>1 DEF CopyIn
    <2>2. ASSUME NEW t \in Senders, AdvanceHead(t)
          PROVE  buf'[head'] = item'[u]
      <3>1. FALSE
        BY <1>1, <1>2, <2>2 DEF AdvanceHead, Goto, Critical
      <3> QED
        BY <3>1
    <2>3. ASSUME NEW t \in Thread, t # u, pc' = pc \/ (\E to : pc' = [pc EXCEPT ![t] = to]),
                 head' = head, buf' = buf, item'[u] = item[u]
          PROVE  buf'[head'] = item'[u]
      BY <1>1, <1>2, <2>3
    <2>4. ASSUME NEW t \in Senders, TakeSpace(t) \/ SendFull(t) \/ GiveItems(t)
          PROVE  buf'[head'] = item'[u]
      BY <1>1, <1>2, <2>3, <2>4 DEF TakeSpace, SendFull, GiveItems, Goto
    <2>5. ASSUME NEW t \in Receivers, RecvStep(t)
          PROVE  buf'[head'] = item'[u]
      BY <1>1, <1>2, <2>3, <2>5
      DEF RecvStep, TakeItems, RecvEmpty, CopyOut, AdvanceTail, GiveSpace, Goto
    <2>6. ASSUME NEW t \in Thread, Lock(t) \/ Unlock(t)
          PROVE  buf'[head'] = item'[u]
      BY <1>1, <1>2, <2>6 DEF Lock, Unlock, Goto
    <2> QED
      BY <1>1, <1>2, <2>1, <2>2, <2>4, <2>5, <2>6 DEF Next, SendStep, vars
  <1> QED
    BY <1>2 DEF Copied

LEMMA InvKept == Inv /\ [Next]_vars => Inv'
  <1> SUFFICES ASSUME Inv, [Next]_vars PROVE Inv'
    OBVIOUS
  <1>1. Sums'
    BY SumsKept
  <1>2. SlotsAccounted'
    BY <1>1, RingKept DEF Sums, SlotsAccounted
  <1> QED
    BY <1>2, TypesKept, ExclusiveKept, CopiedKept DEF Inv

LEMMA AlwaysInv == Spec => []Inv
  BY InvInit, InvKept, PTL DEF Spec

(* Every index, semaphore and program counter stays in its range: head and  *)
(* tail within the ring, the semaphores within their maximum.                *)
THEOREM TypeCorrect == Spec => []TypeOK
  <1>1. Inv => TypeOK
    BY DEF Inv
  <1> QED
    BY <1>1, AlwaysInv, PTL

(* For any number of senders and receivers every slot and every item is     *)
(* accounted for: no slot leaks when calls overlap in host_q_send and        *)
(* iot_queue_recv.                                                           *)
THEOREM AccountsCorrect == Spec => []SlotsAccounted
  <1>1. Inv => SlotsAccounted
    BY DEF Inv
  <1> QED
    BY <1>1, AlwaysInv, PTL

-----------------------------------------------------------------------------
(* The ring implements the bounded queue *)

PhaseOf == [t \in Thread |-> Phase(t)]

Receiving == {"lock", "copy"}

LEMMA PhaseIs ==
    ASSUME pc \in [Thread -> Place], NEW t \in Thread
    PROVE  PhaseOf[t] = IF pc[t] = "out" THEN "out"
                        ELSE IF pc[t] \in Receiving \/ (t \in Senders /\ pc[t] = "advance")
                        THEN "in" ELSE "done"
  BY DEF PhaseOf, Phase, Receiving

(* A step of t changes the phase of t only. *)
LEMMA PhaseMoves ==
    ASSUME pc \in [Thread -> Place], NEW t \in Thread, NEW from, NEW to, Goto(t, from, to),
           NEW new, Phase(t)' = new
    PROVE  PhaseOf' = [PhaseOf EXCEPT ![t] = new]
  <1>1. pc' = [pc EXCEPT ![t] = to]
    BY DEF Goto
  <1>2. ASSUME NEW u \in Thread, u # t
        PROVE  Phase(u)' = Phase(u)
    BY <1>1, <1>2 DEF Phase
  <1> QED
    BY <1>2 DEF PhaseOf

(* At most one receiver is reading, and then no other call is in the ring. *)
LEMMA ReadingIs ==
    ASSUME Inv
    PROVE  /\ Reading \in {0, 1}
           /\ Reading <= count
           /\ Reading <= At(Receivers, Before)
           /\ \A t \in Receivers : pc[t] = "advance" => Reading = 1
           /\ \A t \in Senders : pc[t] \in Critical => Reading = 0
           /\ \A t \in Receivers : pc[t] = "copy" => Reading = 0
  <1>1. /\ \A t \in Thread : t \in mtx <=> pc[t] \in Critical
        /\ \A t, u \in mtx : t = u
        /\ Senders \subseteq Thread /\ Receivers \subseteq Thread
        /\ Senders \cap Receivers = {}
        /\ IsFiniteSet(Receivers)
    BY ThreadsAssumption DEF Inv, Exclusive, Thread
  <1>2. ASSUME NEW t \in Receivers, pc[t] = "advance"
        PROVE  At(Receivers, Before) > 0
    BY <1>1, <1>2, Counted DEF Before
  <1>3. /\ At(Receivers, Before) \in Nat /\ At(Senders, Behind) \in Nat /\ items \in Nat
        /\ items + At(Senders, Behind) + At(Receivers, Before) = count
    BY Accounts
  <1>4. Reading \in {0, 1} /\ (Reading = 1 => \E t \in Receivers : pc[t] = "advance")
    BY DEF Reading
  <1>5. Reading <= At(Receivers, Before) /\ Reading <= count
    BY <1>2, <1>3, <1>4
  <1>6. \A t \in Receivers : pc[t] = "advance" => Reading = 1
    BY DEF Reading
  <1>7. \A t \in Senders : pc[t] \in Critical => Reading = 0
    BY <1>1, <1>4 DEF Critical
  <1>8. \A t \in Receivers : pc[t] = "copy" => Reading = 0
    BY <1>1, <1>4 DEF Critical
  <1> QED
    BY <1>4, <1>5, <1>6, <1>7, <1>8

LEMMA ReadingSame ==
    ASSUME \A t \in Receivers : pc'[t] = "advance" <=> pc[t] = "advance"
    PROVE  Reading' = Reading
  BY DEF Reading

LEMMA ContentsIs ==
    ASSUME Inv
    PROVE  /\ count - Reading \in 0..Length
           /\ Contents \in Seq(Nat)
           /\ Len(Contents) = count - Reading
           /\ \A i \in 1..(count - Reading) :
                /\ tail + Reading + i - 1 = tail + (Reading + i - 1)
                /\ Reading + i - 1 \in 0..Length
                /\ (tail + Reading + i - 1) % Length \in Slot
                /\ Contents[i] = buf[(tail + Reading + i - 1) % Length]
  <1>1. /\ count \in 0..Length /\ tail \in Slot /\ buf \in [Slot -> Nat] /\ Length \in Nat \ {0}
    BY LengthAssumption DEF Inv, TypeOK
  <1>2. Reading \in {0, 1} /\ Reading <= count
    BY ReadingIs
  <1>3. PICK n \in 0..Length : n = count - Reading
    BY <1>1, <1>2
  <1>4. ASSUME NEW i \in 1..n
        PROVE  /\ tail + Reading + i - 1 = tail + (Reading + i - 1)
               /\ Reading + i - 1 \in 0..Length
               /\ (tail + Reading + i - 1) % Length \in Slot
    <2>1. /\ tail + Reading + i - 1 = tail + (Reading + i - 1)
          /\ Reading + i - 1 \in 0..Length
      BY <1>1, <1>2, <1>3 DEF Slot
    <2> QED
      BY <1>1, <2>1, RingIs
  <1>5. Contents = [i \in 1..n |-> buf[(tail + Reading + i - 1) % Length]]
    BY <1>3 DEF Contents
  <1>6. \A i \in 1..n : buf[(tail + Reading + i - 1) % Length] \in Nat
    BY <1>1, <1>4
  <1>7. Contents \in [1..n -> Nat]
    BY <1>5, <1>6
  <1>8. Contents \in Seq(Nat) /\ Len(Contents) = n
    BY <1>7
  <1> QED
    BY <1>3, <1>4, <1>5, <1>8

(* What is in the ring is where it was. *)
LEMMA ContentsSame ==
    ASSUME Reading' = Reading, UNCHANGED <<buf, tail, count>>
    PROVE  Contents' = Contents
  BY DEF Contents

LEMMA SameCardinality == \A S : Abstract!Cardinality(S) = Cardinality(S)
  BY DEF Abstract!Cardinality, Cardinality

(* A call that is under way is counted once. *)
LEMMA UnderWayIs ==
    ASSUME Inv
    PROVE  /\ Abstract!UnderWay \in Nat
           /\ At(Senders, Before) + At(Receivers, Before) + At(Receivers, Behind)
                <= Abstract!UnderWay
           /\ At(Senders, Behind) + At(Receivers, Before) <= Abstract!UnderWay
  <1> DEFINE sb == {t \in Senders : pc[t] \in Before}
             sd == {t \in Senders : pc[t] \in Behind}
             rb == {t \in Receivers : pc[t] \in Before}
             rd == {t \in Receivers : pc[t] \in Behind}
             U == {t \in Thread : PhaseOf[t] # "out"}
  <1>1. pc \in [Thread -> Place] /\ IsFiniteSet(Senders) /\ IsFiniteSet(Receivers)
        /\ Senders \cap Receivers = {}
    BY ThreadsAssumption, Accounts
  <1>2. IsFiniteSet(Thread)
    BY <1>1, FS_Union DEF Thread
  <1>3. U = {t \in Thread : pc[t] # "out"}
    BY <1>1, PhaseIs DEF Receiving
  <1>4. Abstract!UnderWay = Cardinality(U)
    BY SameCardinality DEF Abstract!UnderWay, Abstract!Thread, Thread, PhaseOf
  <1>5. /\ IsFiniteSet(sb) /\ IsFiniteSet(sd) /\ IsFiniteSet(rb) /\ IsFiniteSet(rd) /\ IsFiniteSet(U)
    BY <1>1, <1>2, <1>3, FS_Subset
  <1>6. /\ sb \cup rb \cup rd \subseteq U /\ sd \cup rb \subseteq U
        /\ sb \cap rb = {} /\ (sb \cup rb) \cap rd = {} /\ sd \cap rb = {}
    BY <1>1, <1>3 DEF Before, Behind, Thread
  <1>7. /\ At(Senders, Before) = Cardinality(sb) /\ At(Senders, Behind) = Cardinality(sd)
        /\ At(Receivers, Before) = Cardinality(rb) /\ At(Receivers, Behind) = Cardinality(rd)
    BY DEF At
  <1> HIDE DEF sb, sd, rb, rd, U
  <1>8. ASSUME NEW A, NEW B, IsFiniteSet(A), IsFiniteSet(B), A \cap B = {}
        PROVE  IsFiniteSet(A \cup B) /\ Cardinality(A \cup B) = Cardinality(A) + Cardinality(B)
    <2>1. /\ IsFiniteSet(A \cup B)
          /\ Cardinality(A \cup B) = Cardinality(A) + Cardinality(B) - Cardinality(A \cap B)
      BY <1>8, FS_Union
    <2>2. Cardinality(A \cap B) = 0
      BY <1>8, FS_EmptySet
    <2>3. PICK a \in Nat : a = Cardinality(A)
      BY <1>8, FS_CardinalityType
    <2>4. PICK b \in Nat : b = Cardinality(B)
      BY <1>8, FS_CardinalityType
    <2>5. a + b - 0 = a + b
      OBVIOUS
    <2> QED
      BY <2>1, <2>2, <2>3, <2>4, <2>5
  <1>9. IsFiniteSet(sb \cup rb) /\ Cardinality(sb \cup rb) = Cardinality(sb) + Cardinality(rb)
    BY <1>5, <1>6, <1>8
  <1>10. Cardinality(sb \cup rb \cup rd) = Cardinality(sb) + Cardinality(rb) + Cardinality(rd)
    BY <1>5, <1>6, <1>8, <1>9
  <1>11. Cardinality(sd \cup rb) = Cardinality(sd) + Cardinality(rb)
    BY <1>5, <1>6, <1>8
  <1>12. /\ Cardinality(sb \cup rb \cup rd) <= Cardinality(U)
         /\ Cardinality(sd \cup rb) <= Cardinality(U)
         /\ Cardinality(U) \in Nat
    BY <1>5, <1>6, FS_Subset, FS_CardinalityType
  <1> QED
    BY <1>4, <1>7, <1>10, <1>11, <1>12

(* A send is refused for a reason, and so is a receive. *)
LEMMA RefusedFull ==
    ASSUME Inv, space = 0
    PROVE  count - Reading + Abstract!UnderWay >= Length
  BY Accounts, ReadingIs, UnderWayIs

LEMMA RefusedEmpty ==
    ASSUME Inv, items = 0
    PROVE  count - Reading <= Abstract!UnderWay
  BY Accounts, ReadingIs, UnderWayIs

(* A sender that went past its wait has a free slot. *)
LEMMA SenderHasRoom ==
    ASSUME Inv, NEW t \in Senders, pc[t] \in Before
    PROVE  count < Length
  <1>1. At(Senders, Before) > 0
    BY Counted, ThreadsAssumption
  <1> QED
    BY <1>1, Accounts

LEMMA ReceiverHasItem ==
    ASSUME Inv, NEW t \in Receivers, pc[t] \in Before
    PROVE  count > 0
  <1>1. At(Receivers, Before) > 0
    BY Counted, ThreadsAssumption
  <1> QED
    BY <1>1, Accounts

(* What Append and Tail return, element by element. *)
LEMMA AppendIs ==
    ASSUME NEW s \in Seq(Nat), NEW x \in Nat, NEW n \in Nat, Len(s) = n,
           NEW c \in [1..(n + 1) -> Nat],
           \A i \in 1..n : c[i] = s[i], c[n + 1] = x
    PROVE  c = Append(s, x)
  <1>1. c \in Seq(Nat) /\ Len(c) = n + 1
    OBVIOUS
  <1>2. /\ Append(s, x) \in Seq(Nat) /\ Len(Append(s, x)) = n + 1
        /\ \A i \in 1..n : Append(s, x)[i] = s[i]
        /\ Append(s, x)[n + 1] = x
    BY AppendProperties
  <1>3. \A i \in 1..(n + 1) : i \in 1..n \/ i = n + 1
    OBVIOUS
  <1>4. \A i \in 1..Len(c) : c[i] = Append(s, x)[i]
    BY <1>1, <1>2, <1>3
  <1> QED
    BY <1>1, <1>2, <1>4, SeqEqual

LEMMA TailIs ==
    ASSUME NEW s \in Seq(Nat), NEW n \in Nat, Len(s) = n + 1,
           NEW c \in [1..n -> Nat],
           \A i \in 1..n : c[i] = s[i + 1]
    PROVE  c = Tail(s)
  <1>1. c \in Seq(Nat) /\ Len(c) = n
    OBVIOUS
  <1>2. s # << >>
    OBVIOUS
  <1>3. /\ Tail(s) \in Seq(Nat) /\ Len(Tail(s)) = n
        /\ \A i \in 1..n : Tail(s)[i] = s[i + 1]
    BY <1>2, HeadTailProperties
  <1>4. \A i \in 1..Len(c) : c[i] = Tail(s)[i]
    BY <1>1, <1>3
  <1> QED
    BY <1>1, <1>3, <1>4, SeqEqual

(* The moves of a sender *)

LEMMA SenderImplements ==
    ASSUME Inv, Inv', NEW t \in Senders, SendStep(t)
    PROVE  Abstract!Next \/ UNCHANGED Abstract!vars
  <1> DEFINE n == count - Reading
  <1>1. /\ pc \in [Thread -> Place] /\ item \in [Thread -> Nat] /\ buf \in [Slot -> Nat]
        /\ head \in Slot /\ tail \in Slot /\ count \in 0..Length /\ Length \in Nat \ {0}
        /\ sends \in 0..MaxSends /\ MaxSends \in Nat
        /\ head = (tail + count) % Length
        /\ t \in Thread /\ t \notin Receivers
    BY ThreadsAssumption, LengthAssumption, MaxSendsAssumption
    DEF Inv, TypeOK, SlotsAccounted, Place, Thread
  <1>2. ASSUME NEW from, NEW to, Goto(t, from, to)
        PROVE  Reading' = Reading
    BY <1>1, <1>2, ReadingSame DEF Goto, Thread
  <1>3. CASE TakeSpace(t)
    <2>1. Goto(t, "out", "lock") /\ UNCHANGED <<buf, tail, count>>
          /\ sends' \in 1..MaxSends /\ item' = [item EXCEPT ![t] = sends']
      BY <1>1, <1>3 DEF TakeSpace
    <2>2. Contents' = Contents
      BY <1>2, <2>1, ContentsSame
    <2>3. PhaseOf[t] = "out" /\ Phase(t)' = "in"
      BY <1>1, <2>1, PhaseIs DEF Goto, Phase
    <2>4. PhaseOf' = [PhaseOf EXCEPT ![t] = "in"]
      BY <1>1, <2>1, <2>3, PhaseMoves
    <2>5. Abstract!BeginSend(t)
      BY <2>1, <2>2, <2>3, <2>4 DEF Abstract!BeginSend, Abstract!Step, PhaseOf
    <2> QED
      BY <2>5 DEF Abstract!Next
  <1>4. CASE SendFull(t)
    <2>1. pc' = pc /\ pc[t] = "out" /\ space = 0 /\ UNCHANGED <<buf, tail, count>>
          /\ item' = [item EXCEPT ![t] = 0]
      BY <1>4 DEF SendFull
    <2>2. Contents' = Contents
      BY <2>1, ContentsSame, ReadingSame
    <2>3. PhaseOf[t] = "out" /\ PhaseOf' = PhaseOf
      BY <1>1, <2>1, PhaseIs DEF PhaseOf, Phase
    <2>4. Len(Contents) + Abstract!UnderWay >= Length
      BY <2>1, RefusedFull, ContentsIs
    <2>5. Abstract!Full(t)
      BY <2>1, <2>2, <2>3, <2>4 DEF Abstract!Full, PhaseOf
    <2> QED
      BY <2>5 DEF Abstract!Next
  <1>5. CASE CopyIn(t)
    <2>1. Goto(t, "copy", "advance") /\ UNCHANGED <<tail, count, item>> /\ pc[t] = "copy"
          /\ buf' = [buf EXCEPT ![head] = item[t]]
      BY <1>5 DEF CopyIn, Goto
    <2>2. Phase(t)' = "in" /\ PhaseOf[t] = "in"
      BY <1>1, <2>1, PhaseIs DEF Goto, Phase, Receiving
    <2>3. PhaseOf' = [PhaseOf EXCEPT ![t] = "in"]
      BY <1>1, <2>1, <2>2, PhaseMoves
    <2>4. PhaseOf' = PhaseOf
      BY <2>2, <2>3 DEF PhaseOf
    <2>5. Reading = 0 /\ Reading' = Reading
      BY <1>2, <2>1, ReadingIs DEF Critical
    <2>6. count < Length
      BY <1>1, <2>1, SenderHasRoom DEF Before
    <2>7. ASSUME NEW i \in 1..count
          PROVE  buf'[(tail + Reading + i - 1) % Length] = buf[(tail + Reading + i - 1) % Length]
      <3>1. PICK k \in 0..Length : k = i - 1 /\ k < count /\ tail + Reading + i - 1 = tail + k
        BY <1>1, <2>5, <2>6 DEF Slot
      <3>2. /\ (tail + k) % Length \in Slot
            /\ (tail + k) % Length = IF tail + k < Length THEN tail + k ELSE tail + k - Length
        BY <1>1, RingIs
      <3>3. head = IF tail + count < Length THEN tail + count ELSE tail + count - Length
        BY <1>1, RingIs
      <3>4. (tail + k) % Length # head
        BY <1>1, <2>6, <3>1, <3>2, <3>3 DEF Slot
      <3> QED
        BY <1>1, <2>1, <3>1, <3>2, <3>4
    <2>8. Contents' = Contents
      <3>1. count - Reading = count /\ count' - Reading' = count
        BY <1>1, <2>1, <2>5
      <3>2. Contents = [i \in 1..count |-> buf[(tail + Reading + i - 1) % Length]]
        BY <3>1 DEF Contents
      <3>3. Contents' = [i \in 1..count |-> buf'[(tail + Reading + i - 1) % Length]]
        BY <2>1, <2>5, <3>1 DEF Contents
      <3> QED
        BY <2>7, <3>2, <3>3
    <2> QED
      BY <2>1, <2>4, <2>8 DEF Abstract!vars, PhaseOf
  <1>6. CASE AdvanceHead(t)
    <2>1. Goto(t, "advance", "unlock") /\ UNCHANGED <<tail, buf, item>> /\ pc[t] = "advance"
          /\ count' = count + 1
      BY <1>6 DEF AdvanceHead, Goto
    <2>2. Phase(t)' = "done" /\ PhaseOf[t] = "in"
      BY <1>1, <2>1, PhaseIs DEF Goto, Phase, Receiving
    <2>3. PhaseOf' = [PhaseOf EXCEPT ![t] = "done"]
      BY <1>1, <2>1, <2>2, PhaseMoves
    <2>4. Reading = 0 /\ Reading' = 0
      BY <1>2, <2>1, ReadingIs DEF Critical
    <2>5. count < Length
      BY <1>1, <2>1, SenderHasRoom DEF Before
    <2>6. buf[head] = item[t]
      BY <2>1 DEF Inv, Copied
    <2>7. Contents \in Seq(Nat) /\ Len(Contents) = count
          /\ \A i \in 1..count : Contents[i] = buf[(tail + 0 + i - 1) % Length]
      BY <1>1, <2>4, ContentsIs
    <2>8. Contents' = [i \in 1..(count + 1) |-> buf[(tail + 0 + i - 1) % Length]]
      BY <1>1, <2>1, <2>4 DEF Contents
    <2>9. tail + 0 + (count + 1) - 1 = tail + count
      BY <1>1 DEF Slot
    <2>10. Contents' = Append(Contents, item[t])
      <3>1. PICK c : c = Contents'
        OBVIOUS
      <3>2. c = [i \in 1..(count + 1) |-> buf[(tail + 0 + i - 1) % Length]]
        BY <2>8, <3>1
      <3>4. \A i \in 1..count : c[i] = Contents[i]
        BY <1>1, <2>7, <3>2
      <3>5. c[count + 1] = buf[(tail + count) % Length]
        <4>1. PICK k \in Nat : k = count + 1 /\ k \in 1..(count + 1) /\ tail + 0 + k - 1 = tail + count
          BY <1>1, <2>9
        <4>2. c[k] = buf[(tail + 0 + k - 1) % Length]
          BY <3>2, <4>1
        <4> QED
          BY <4>1, <4>2
      <3>6. c[count + 1] = item[t]
        BY <1>1, <2>6, <3>5
      <3>11. c \in [1..(count + 1) -> Nat]
        <4>1. \A i \in 1..(count + 1) : i \in 1..count \/ i = count + 1
          BY <1>1
        <4>2. \A i \in 1..count : c[i] \in Nat
          BY <1>1, <2>7, <3>4, ElementOfSeq
        <4>3. c[count + 1] \in Nat
          BY <1>1, <2>6, <3>5
        <4>4. \A i \in 1..(count + 1) : c[i] \in Nat
          BY <4>1, <4>2, <4>3
        <4> QED
          BY <3>2, <4>4
      <3>7. count \in Nat /\ item[t] \in Nat
        BY <1>1
      <3>8. PICK s, k, x : s = Contents /\ k = count /\ x = item[t]
        OBVIOUS
      <3>9. s \in Seq(Nat) /\ x \in Nat /\ k \in Nat /\ Len(s) = k
            /\ c \in [1..(k + 1) -> Nat]
            /\ (\A i \in 1..k : c[i] = s[i]) /\ c[k + 1] = x
        BY <2>7, <3>4, <3>6, <3>7, <3>8, <3>11
      <3>10. c = Append(s, x)
        BY <3>9, AppendIs
      <3> QED
        BY <3>1, <3>8, <3>10
    <2>11. Abstract!Put(t)
      BY <2>1, <2>2, <2>3, <2>5, <2>7, <2>10 DEF Abstract!Put, Abstract!Step, PhaseOf
    <2> QED
      BY <2>11 DEF Abstract!Next
  <1>7. CASE GiveItems(t)
    <2>1. Goto(t, "release", "out") /\ UNCHANGED <<tail, buf, item, count>> /\ pc[t] = "release"
      BY <1>7 DEF GiveItems, Goto
    <2>2. Phase(t)' = "out" /\ PhaseOf[t] = "done"
      BY <1>1, <2>1, PhaseIs DEF Goto, Phase, Receiving
    <2>3. PhaseOf' = [PhaseOf EXCEPT ![t] = "out"]
      BY <1>1, <2>1, <2>2, PhaseMoves
    <2>4. Contents' = Contents
      BY <1>2, <2>1, ContentsSame
    <2>5. Abstract!End(t)
      BY <2>1, <2>2, <2>3, <2>4 DEF Abstract!End, Abstract!Step, PhaseOf
    <2> QED
      BY <1>1, <2>5 DEF Abstract!Next, Abstract!Thread, Thread
  <1> QED
    BY <1>3, <1>4, <1>5, <1>6, <1>7 DEF SendStep

(* The moves of a receiver *)

LEMMA ReceiverImplements ==
    ASSUME Inv, Inv', NEW t \in Receivers, RecvStep(t)
    PROVE  Abstract!Next \/ UNCHANGED Abstract!vars
  <1>1. /\ pc \in [Thread -> Place] /\ item \in [Thread -> Nat] /\ buf \in [Slot -> Nat]
        /\ head \in Slot /\ tail \in Slot /\ count \in 0..Length /\ Length \in Nat \ {0}
        /\ t \in Thread /\ t \notin Senders
        /\ pc' \in [Thread -> Place]
    BY ThreadsAssumption, LengthAssumption
    DEF Inv, TypeOK, Place, Thread
  <1>2. ASSUME NEW from, NEW to, Goto(t, from, to), from # "advance", to # "advance"
        PROVE  Reading' = Reading
    BY <1>1, <1>2, ReadingSame DEF Goto, Thread
  <1>3. CASE TakeItems(t)
    <2>1. Goto(t, "out", "lock") /\ UNCHANGED <<buf, tail, count, item>>
      BY <1>3 DEF TakeItems
    <2>2. Contents' = Contents
      BY <1>2, <2>1, ContentsSame
    <2>3. PhaseOf[t] = "out" /\ Phase(t)' = "in"
      BY <1>1, <2>1, PhaseIs DEF Goto, Phase
    <2>4. PhaseOf' = [PhaseOf EXCEPT ![t] = "in"]
      BY <1>1, <2>1, <2>3, PhaseMoves
    <2>5. Abstract!BeginRecv(t)
      BY <2>1, <2>2, <2>3, <2>4 DEF Abstract!BeginRecv, Abstract!Step, PhaseOf
    <2> QED
      BY <2>5 DEF Abstract!Next
  <1>4. CASE RecvEmpty(t)
    <2>1. pc' = pc /\ pc[t] = "out" /\ items = 0 /\ UNCHANGED <<buf, tail, count>>
          /\ item' = [item EXCEPT ![t] = 0]
      BY <1>4 DEF RecvEmpty
    <2>2. Contents' = Contents
      BY <2>1, ContentsSame, ReadingSame
    <2>3. PhaseOf[t] = "out" /\ PhaseOf' = PhaseOf
      BY <1>1, <2>1, PhaseIs DEF PhaseOf, Phase
    <2>4. Len(Contents) <= Abstract!UnderWay
      BY <2>1, RefusedEmpty, ContentsIs
    <2>5. Abstract!Empty(t)
      BY <2>1, <2>2, <2>3, <2>4 DEF Abstract!Empty, PhaseOf
    <2> QED
      BY <2>5 DEF Abstract!Next
  <1>5. CASE CopyOut(t)
    <2>1. Goto(t, "copy", "advance") /\ UNCHANGED <<tail, count, buf>> /\ pc[t] = "copy"
          /\ item' = [item EXCEPT ![t] = buf[tail]] /\ pc'[t] = "advance"
      BY <1>1, <1>5 DEF CopyOut, Goto
    <2>2. Phase(t)' = "done" /\ PhaseOf[t] = "in"
      BY <1>1, <2>1, PhaseIs DEF Goto, Phase, Receiving
    <2>3. PhaseOf' = [PhaseOf EXCEPT ![t] = "done"]
      BY <1>1, <2>1, <2>2, PhaseMoves
    <2>4. Reading = 0 /\ Reading' = 1
      BY <2>1, ReadingIs DEF Reading
    <2>5. count > 0
      BY <1>1, <2>1, ReceiverHasItem DEF Before
    <2>6. Contents \in Seq(Nat) /\ Len(Contents) = count
          /\ \A i \in 1..count : Contents[i] = buf[(tail + 0 + i - 1) % Length]
      BY <1>1, <2>4, ContentsIs
    <2>7. PICK n \in Nat : n = count - 1 /\ count = n + 1
      BY <1>1, <2>5
    <2>8. Contents' = [i \in 1..n |-> buf[(tail + 1 + i - 1) % Length]]
      BY <2>1, <2>4, <2>7 DEF Contents
    <2>9. \A i \in 1..n : i + 1 \in 1..count /\ tail + 1 + i - 1 = tail + 0 + (i + 1) - 1
      BY <1>1, <2>7 DEF Slot
    <2>10. Contents' = Tail(Contents)
      <3>1. PICK c, s : c = Contents' /\ s = Contents
        OBVIOUS
      <3>2. c = [i \in 1..n |-> buf[(tail + 1 + i - 1) % Length]]
        BY <2>8, <3>1
      <3>3. \A i \in 1..n : c[i] = s[i + 1]
        BY <2>6, <2>9, <3>1, <3>2
      <3>4. s \in Seq(Nat) /\ Len(s) = n + 1
        BY <2>6, <2>7, <3>1
      <3>5. \A i \in 1..n : s[i + 1] \in Nat
        BY <2>7, <2>9, <3>4, ElementOfSeq
      <3>6. c \in [1..n -> Nat]
        BY <3>2, <3>3, <3>5
      <3>7. c = Tail(s)
        BY <3>3, <3>4, <3>6, TailIs
      <3> QED
        BY <3>1, <3>7
    <2>11. Contents # << >> /\ Head(Contents) = buf[tail]
      <3>1. 1 \in 1..count /\ tail + 0 + 1 - 1 = tail
        BY <1>1, <2>5 DEF Slot
      <3>2. PICK k \in Nat : k = tail + 0 + 1 - 1
        BY <1>1, <3>1 DEF Slot
      <3>3. k % Length = tail
        <4>1. k = tail /\ k < Length /\ k < 2 * Length
          BY <1>1, <3>1, <3>2 DEF Slot
        <4> QED
          BY <1>1, <4>1, Wrap
      <3>4. Contents[1] = buf[k % Length]
        BY <2>6, <3>1, <3>2
      <3>5. Contents # << >>
        BY <2>5, <2>6
      <3> QED
        BY <2>6, <3>3, <3>4, <3>5, HeadTailProperties
    <2>12. Abstract!Get(t)
      BY <2>1, <2>2, <2>3, <2>10, <2>11 DEF Abstract!Get, Abstract!Step, PhaseOf
    <2> QED
      BY <2>12 DEF Abstract!Next
  <1>6. CASE AdvanceTail(t)
    <2>1. Goto(t, "advance", "unlock") /\ UNCHANGED <<buf, item>> /\ pc[t] = "advance"
          /\ tail' = After(tail) /\ count' = count - 1 /\ pc'[t] = "unlock"
      BY <1>1, <1>6 DEF AdvanceTail, Goto
    <2>2. Phase(t)' = "done" /\ PhaseOf[t] = "done"
      BY <1>1, <2>1, PhaseIs DEF Goto, Phase, Receiving
    <2>3. PhaseOf' = [PhaseOf EXCEPT ![t] = "done"]
      BY <1>1, <2>1, <2>2, PhaseMoves
    <2>4. PhaseOf' = PhaseOf
      BY <2>2, <2>3 DEF PhaseOf
    <2>5. Reading = 1 /\ Reading' = 0
      <3>1. Reading = 1
        BY <2>1, ReadingIs
      <3>2. \A u \in Receivers : u # t => pc[u] # "advance"
        BY <1>1, <2>1 DEF Inv, Exclusive, Critical, Thread
      <3>3. \A u \in Receivers : pc'[u] # "advance"
        BY <1>1, <2>1, <3>2 DEF Goto
      <3> QED
        BY <3>1, <3>3 DEF Reading
    <2>6. PICK n \in 0..Length : n = count - 1 /\ n < Length
      BY <1>1, <2>1, <2>5, ReadingIs
    <2>7. Contents = [i \in 1..n |-> buf[(tail + 1 + i - 1) % Length]]
      BY <2>5, <2>6 DEF Contents
    <2>8. Contents' = [i \in 1..n |-> buf[(After(tail) + 0 + i - 1) % Length]]
      <3>1. count' - Reading' = n
        BY <1>1, <2>1, <2>5, <2>6
      <3> QED
        BY <2>1, <2>5, <3>1 DEF Contents
    <2>9. ASSUME NEW i \in 1..n
          PROVE  (tail + 1 + i - 1) % Length = (After(tail) + 0 + i - 1) % Length
      <3>1. PICK k \in 0..Length : k = i /\ k >= 1 /\ k <= n /\ tail + 1 + i - 1 = tail + k
        BY <1>1, <2>6 DEF Slot
      <3>2. PICK s \in Slot : s = After(tail)
        BY <1>1, AfterIs
      <3>3. PICK j \in 0..Length : j = k - 1 /\ s + 0 + i - 1 = s + j
        BY <1>1, <3>1, <3>2 DEF Slot
      <3>4. (tail + k) % Length = IF tail + k < Length THEN tail + k ELSE tail + k - Length
        BY <1>1, RingIs
      <3>5. (s + j) % Length = IF s + j < Length THEN s + j ELSE s + j - Length
        BY <1>1, RingIs
      <3>6. s = IF tail + 1 = Length THEN 0 ELSE tail + 1
        BY <1>1, <3>2, AfterIs
      <3>7. (tail + k) % Length = (s + j) % Length
        BY <1>1, <2>6, <3>1, <3>3, <3>4, <3>5, <3>6 DEF Slot
      <3> QED
        BY <3>1, <3>2, <3>3, <3>7
    <2>10. Contents' = Contents
      BY <2>7, <2>8, <2>9
    <2> QED
      BY <2>1, <2>4, <2>10 DEF Abstract!vars, PhaseOf
  <1>7. CASE GiveSpace(t)
    <2>1. Goto(t, "release", "out") /\ UNCHANGED <<tail, buf, item, count>> /\ pc[t] = "release"
      BY <1>7 DEF GiveSpace, Goto
    <2>2. Phase(t)' = "out" /\ PhaseOf[t] = "done"
      BY <1>1, <2>1, PhaseIs DEF Goto, Phase, Receiving
    <2>3. PhaseOf' = [PhaseOf EXCEPT ![t] = "out"]
      BY <1>1, <2>1, <2>2, PhaseMoves
    <2>4. Contents' = Contents
      BY <1>2, <2>1, ContentsSame
    <2>5. Abstract!End(t)
      BY <2>1, <2>2, <2>3, <2>4 DEF Abstract!End, Abstract!Step, PhaseOf
    <2> QED
      BY <1>1, <2>5 DEF Abstract!Next, Abstract!Thread, Thread
  <1> QED
    BY <1>3, <1>4, <1>5, <1>6, <1>7 DEF RecvStep

(* Nobody outside sees the mutex. *)
LEMMA MutexIsHidden ==
    ASSUME Inv, NEW t \in Thread, Lock(t) \/ Unlock(t)
    PROVE  UNCHANGED Abstract!vars
  <1>1. pc \in [Thread -> Place]
    BY DEF Inv, TypeOK, Place
  <1>2. UNCHANGED <<buf, tail, count, item>>
    BY DEF Lock, Unlock
  <1>3. Goto(t, "lock", "copy") \/ Goto(t, "unlock", "release")
    BY DEF Lock, Unlock
  <1>4. Phase(t)' = PhaseOf[t]
    BY <1>1, <1>3, PhaseIs DEF Goto, Phase, Receiving
  <1>5. PhaseOf' = [PhaseOf EXCEPT ![t] = PhaseOf[t]]
    BY <1>1, <1>3, <1>4, PhaseMoves
  <1>6. PhaseOf' = PhaseOf
    BY <1>5 DEF PhaseOf
  <1>7. Reading' = Reading
    BY <1>1, <1>3, ReadingSame DEF Goto, Thread
  <1> QED
    BY <1>2, <1>6, <1>7, ContentsSame DEF Abstract!vars, PhaseOf

LEMMA InitImplements == Init => Abstract!Init
  <1> SUFFICES ASSUME Init PROVE Abstract!Init
    OBVIOUS
  <1>1. Reading = 0 /\ count = 0
    BY DEF Init, Reading, Thread
  <1>2. Contents = << >>
    BY <1>1 DEF Contents
  <1>3. PhaseOf = [t \in Thread |-> "out"]
    BY DEF Init, PhaseOf, Phase
  <1> QED
    BY <1>2, <1>3 DEF Init, Abstract!Init, Abstract!Thread, Thread, PhaseOf

LEMMA NextImplements ==
    ASSUME Inv, Inv', [Next]_vars
    PROVE  [Abstract!Next]_(Abstract!vars)
  <1>1. CASE UNCHANGED vars
    <2>1. UNCHANGED <<pc, buf, tail, count, item>>
      BY <1>1 DEF vars
    <2> QED
      BY <2>1, ReadingSame, ContentsSame DEF Abstract!vars, Phase
  <1>2. CASE Next
    BY <1>2, SenderImplements, ReceiverImplements, MutexIsHidden DEF Next
  <1> QED
    BY <1>1, <1>2

(* The ring under its mutex and its two semaphores implements the bounded    *)
(* queue, whatever the length and the number of callers: iot_queue_send and  *)
(* iot_queue_recv deliver each item once and in order.                       *)
THEOREM Implements == Spec => BoundedQueueSpec
  BY InitImplements, NextImplements, AlwaysInv, PTL DEF Spec, BoundedQueueSpec, Abstract!Spec
-----------------------------------------------------------------------------
(* How near an item is to a receiver: its place in the ring.  The rank      *)
(* behind EverythingIsReceived.                                             *)

Awaits(n, k) == k \in 1..Len(Contents) /\ Contents[k] = n

Got(n) == \E r \in Receivers : item[r] = n

(* No call puts back what is in the ring; each receiver that copies brings  *)
(* it nearer, and the first one is what that receiver gets.                 *)
ItemNears ==
    \A n, k \in Nat : Awaits(n, k) =>
        \/ Awaits(n, k)' /\ ~(\E r \in Receivers : CopyOut(r))
        \/ \E j \in Nat : k = j + 1 /\ Awaits(n, j)'
        \/ k = 1 /\ Got(n)'

(* What a step does to what a bounded queue holds. *)
LEMMA AbstractMoves ==
    ASSUME Inv, Inv', [Next]_vars
    PROVE  \/ Contents' = Contents
           \/ \E t \in Senders : Abstract!Put(t)
           \/ \E t \in Receivers : Abstract!Get(t)
  <1>1. [Abstract!Next]_(Abstract!vars)
    BY NextImplements
  <1>2. CASE UNCHANGED Abstract!vars
    BY <1>2 DEF Abstract!vars
  <1>3. CASE Abstract!Next
    BY <1>3 DEF Abstract!Next, Abstract!BeginSend, Abstract!Full, Abstract!BeginRecv,
                Abstract!Empty, Abstract!End
  <1> QED
    BY <1>1, <1>2, <1>3

(* A call takes effect where the code copies out, or moves the head. *)
LEMMA Effects ==
    ASSUME Inv, Inv', [Next]_vars, NEW t \in Thread, pc[t] # pc'[t],
           \/ t \in Receivers /\ pc[t] = "copy" /\ pc'[t] = "advance"
           \/ t \in Senders /\ pc[t] = "advance" /\ pc'[t] = "unlock"
    PROVE  IF t \in Senders THEN Abstract!Put(t) ELSE Abstract!Get(t)
  <1>1. pc \in [Thread -> Place] /\ Senders \cap Receivers = {}
    BY ThreadsAssumption DEF Inv, TypeOK, Place
  <1>2. PhaseOf[t] = "in" /\ PhaseOf'[t] = "done"
    <2>1. PhaseOf[t] = Phase(t) /\ PhaseOf'[t] = Phase(t)'
      BY DEF PhaseOf
    <2> QED
      BY <1>1, <2>1 DEF Phase
  <1>3. Abstract!Next
    BY <1>2, NextImplements DEF Abstract!vars, PhaseOf
  <1>4. ASSUME NEW u \in Thread, NEW from, NEW to, Abstract!Step(u, from, to)
        PROVE  u = t /\ to = "done"
    BY <1>2, <1>4 DEF Abstract!Step, PhaseOf
  <1>5. Senders \subseteq Thread /\ Receivers \subseteq Thread /\ Abstract!Thread = Thread
    BY DEF Thread, Abstract!Thread
  <1>6. PhaseOf' # PhaseOf
    BY <1>2
  <1>7. ASSUME NEW u \in Senders PROVE ~(Abstract!BeginSend(u) \/ Abstract!Full(u))
    <2>1. ~Abstract!BeginSend(u)
      BY <1>4, <1>5 DEF Abstract!BeginSend
    <2>2. Abstract!Full(u) => PhaseOf' = PhaseOf
      BY DEF Abstract!Full, PhaseOf
    <2> QED
      BY <1>6, <2>1, <2>2
  <1>8. ASSUME NEW u \in Receivers PROVE ~(Abstract!BeginRecv(u) \/ Abstract!Empty(u))
    <2>1. ~Abstract!BeginRecv(u)
      BY <1>4, <1>5 DEF Abstract!BeginRecv
    <2>2. Abstract!Empty(u) => PhaseOf' = PhaseOf
      BY DEF Abstract!Empty, PhaseOf
    <2> QED
      BY <1>6, <2>1, <2>2
  <1>9. ~(\E u \in Thread : Abstract!End(u))
    BY <1>4 DEF Abstract!End
  <1>10. (\E u \in Senders : Abstract!Put(u)) \/ (\E u \in Receivers : Abstract!Get(u))
    BY <1>3, <1>5, <1>7, <1>8, <1>9 DEF Abstract!Next
  <1>11. \A u \in Senders : Abstract!Put(u) => u = t
    BY <1>4, <1>5 DEF Abstract!Put
  <1>12. \A u \in Receivers : Abstract!Get(u) => u = t
    BY <1>4, <1>5 DEF Abstract!Get
  <1> QED
    BY <1>1, <1>10, <1>11, <1>12

LEMMA GetBrings ==
    ASSUME Inv, NEW r \in Receivers, Abstract!Get(r), NEW n, NEW k \in Nat, Awaits(n, k)
    PROVE  IF k = 1 THEN Got(n)' ELSE Awaits(n, k - 1)'
  <1>1. /\ Contents # <<>> /\ Contents' = Tail(Contents)
        /\ item' = [item EXCEPT ![r] = Head(Contents)]
    BY DEF Abstract!Get
  <1>2. Contents \in Seq(Nat) /\ item \in [Thread -> Nat] /\ r \in Thread
    BY ContentsIs DEF Inv, TypeOK, Thread
  <1>3. /\ Head(Contents) = Contents[1] /\ Len(Contents) \in Nat
        /\ Len(Contents') = Len(Contents) - 1
        /\ \A i \in 1..Len(Contents') : Contents'[i] = Contents[i + 1]
    BY <1>1, <1>2, HeadTailProperties
  <1>4. CASE k = 1
    BY <1>1, <1>2, <1>3, <1>4 DEF Awaits, Got
  <1>5. CASE k # 1
    <2>1. k - 1 \in 1..Len(Contents') /\ (k - 1) + 1 = k
      BY <1>3, <1>5 DEF Awaits
    <2> QED
      BY <1>3, <1>5, <2>1 DEF Awaits
  <1> QED
    BY <1>4, <1>5

LEMMA ItemNearsNext == Inv /\ Inv' /\ [Next]_vars => ItemNears
  <1> SUFFICES ASSUME Inv, Inv', [Next]_vars, NEW n \in Nat, NEW k \in Nat, Awaits(n, k)
               PROVE  \/ Awaits(n, k)' /\ ~(\E r \in Receivers : CopyOut(r))
                      \/ \E j \in Nat : k = j + 1 /\ Awaits(n, j)'
                      \/ k = 1 /\ Got(n)'
    BY DEF ItemNears
  <1>1. Contents \in Seq(Nat) /\ Len(Contents) \in Nat /\ item \in [Thread -> Nat]
    <2>1. item \in [Thread -> Nat]
      BY DEF Inv, TypeOK
    <2>2. Contents \in Seq(Nat)
      BY ContentsIs
    <2> QED
      BY <2>1, <2>2
  <1>2. ASSUME NEW r \in Receivers, CopyOut(r) PROVE Abstract!Get(r)
    <2>1. r \in Thread /\ r \notin Senders /\ pc \in [Thread -> Place]
      BY ThreadsAssumption DEF Thread, Inv, TypeOK, Place
    <2>2. pc[r] = "copy" /\ pc'[r] = "advance"
      BY <1>2, <2>1 DEF CopyOut, Goto
    <2> QED
      BY <2>1, <2>2, Effects
  <1>3. CASE \E r \in Receivers : Abstract!Get(r)
    <2>1. IF k = 1 THEN Got(n)' ELSE Awaits(n, k - 1)'
      BY <1>3, GetBrings
    <2>2. CASE k # 1
      <3>1. PICK j \in Nat : j = k - 1
        BY <1>1, <2>2 DEF Awaits
      <3>2. k = j + 1 /\ Awaits(n, j)'
        BY <2>1, <2>2, <3>1
      <3> QED
        BY <3>2
    <2> QED
      BY <2>1, <2>2
  <1>4. CASE ~(\E r \in Receivers : Abstract!Get(r)) /\ Contents' = Contents
    BY <1>2, <1>4 DEF Awaits
  <1>5. CASE ~(\E r \in Receivers : Abstract!Get(r)) /\ \E t \in Senders : Abstract!Put(t)
    <2>1. PICK t \in Senders : Abstract!Put(t)
      BY <1>5
    <2>2. Contents' = Append(Contents, item[t]) /\ item[t] \in Nat
      BY <1>1, <2>1 DEF Abstract!Put, Thread
    <2>3. k \in 1..Len(Contents') /\ Contents'[k] = Contents[k]
      BY <1>1, <2>2, AppendProperties DEF Awaits
    <2> QED
      BY <1>2, <1>5, <2>3 DEF Awaits
  <1> QED
    BY <1>3, <1>4, <1>5, AbstractMoves

(* An item that a sender has put into the ring only gets nearer to a        *)
(* receiver, whatever the calls that wait for the mutex or for a semaphore. *)
THEOREM ItemComesNearer == Spec => [][ItemNears]_vars
  BY ItemNearsNext, AlwaysInv, PTL DEF Spec
-----------------------------------------------------------------------------
(* From the rank to EverythingIsReceived, call by call. *)

Onward == [out |-> "lock", lock |-> "copy", copy |-> "advance", advance |-> "unlock",
           unlock |-> "release", release |-> "out"]

(* What a step does to a call. *)
LEMMA CallMoves ==
    ASSUME Inv, [Next]_vars, NEW t \in Thread
    PROVE  /\ pc'[t] \in {pc[t], Onward[pc[t]]}
           /\ t \in Senders /\ pc[t] # "out" => item'[t] = item[t]
           /\ pc[t] = "unlock" /\ pc'[t] # "unlock" => mtx' = {}
           /\ items > 0 => items' > 0 \/ \E u \in Receivers : pc'[u] = "lock"
           /\ t \in Senders /\ pc[t] = "release" /\ pc'[t] # "release" => items' > 0
  <1>1. /\ pc \in [Thread -> Place] /\ items \in Nat /\ item \in [Thread -> Nat]
        /\ \A u \in Thread : u \in mtx <=> pc[u] \in Critical
        /\ \A u, v \in mtx : u = v
        /\ Senders \subseteq Thread /\ Receivers \subseteq Thread
        /\ Senders \cap Receivers = {} /\ mtx \subseteq Thread
    BY ThreadsAssumption DEF Inv, TypeOK, Exclusive, Place, Thread
  <1>2. ASSUME NEW u \in Senders, SendStep(u)
        PROVE  /\ pc'[t] \in {pc[t], Onward[pc[t]]}
               /\ t \in Senders /\ pc[t] # "out" => item'[t] = item[t]
               /\ pc[t] = "unlock" => pc'[t] = "unlock"
               /\ items' \in {items, items + 1}
               /\ t \in Senders /\ pc[t] = "release" /\ pc'[t] # "release" => items' = items + 1
    BY <1>1, <1>2
    DEF SendStep, TakeSpace, SendFull, CopyIn, AdvanceHead, GiveItems, Goto, Onward, Place
  <1>3. ASSUME NEW u \in Receivers, RecvStep(u)
        PROVE  /\ pc'[t] \in {pc[t], Onward[pc[t]]}
               /\ t \in Senders => item'[t] = item[t] /\ pc'[t] = pc[t]
               /\ pc[t] = "unlock" => pc'[t] = "unlock"
               /\ items' = items \/ pc'[u] = "lock"
    BY <1>1, <1>3
    DEF RecvStep, TakeItems, RecvEmpty, CopyOut, AdvanceTail, GiveSpace, Goto, Onward, Place
  <1>4. ASSUME NEW u \in Thread, Lock(u) \/ Unlock(u)
        PROVE  /\ pc'[t] \in {pc[t], Onward[pc[t]]}
               /\ item' = item /\ items' = items
               /\ pc[t] = "unlock" /\ pc'[t] # "unlock" => mtx' = {}
               /\ pc[t] = "release" => pc'[t] = "release"
    <2>1. CASE Lock(u)
      BY <1>1, <2>1 DEF Lock, Goto, Onward, Place
    <2>2. CASE Unlock(u)
      <3>1. pc[u] = "unlock" /\ pc' = [pc EXCEPT ![u] = "release"] /\ mtx' = mtx \ {u}
            /\ item' = item /\ items' = items
        BY <2>2 DEF Unlock, Goto
      <3>2. u \in mtx /\ mtx' = {}
        BY <1>1, <3>1 DEF Critical
      <3> QED
        BY <1>1, <3>1, <3>2 DEF Onward, Place
    <2> QED
      BY <1>4, <2>1, <2>2
  <1>5. CASE UNCHANGED vars
    BY <1>5 DEF vars
  <1> QED
    BY <1>1, <1>2, <1>3, <1>4, <1>5 DEF Next

(* An item in the ring is announced, about to be, or promised to a receiver *)
(* that has not read yet.                                                   *)
LEMMA SomebodyIsDue ==
    ASSUME Inv, count - Reading > 0
    PROVE  \/ items > 0
           \/ \E s \in Senders : pc[s] \in Behind
           \/ \E r \in Receivers : pc[r] \in Receiving
  <1>1. /\ \A u \in Thread : u \in mtx <=> pc[u] \in Critical
        /\ \A u, v \in mtx : u = v
        /\ Receivers \subseteq Thread /\ IsFiniteSet(Receivers)
    BY ThreadsAssumption DEF Inv, Exclusive, Thread
  <1>2. /\ At(Receivers, Before) \in Nat /\ At(Senders, Behind) \in Nat
        /\ items \in Nat /\ count \in Nat
        /\ items + At(Senders, Behind) + At(Receivers, Before) = count
    BY Accounts
  <1>3. (\A s \in Senders : pc[s] \notin Behind) => At(Senders, Behind) = 0
    <2>1. (\A s \in Senders : pc[s] \notin Behind) => {s \in Senders : pc[s] \in Behind} = {}
      OBVIOUS
    <2> QED
      BY <2>1, FS_EmptySet DEF At
  <1>4. (\A r \in Receivers : pc[r] \notin Receiving) => At(Receivers, Before) <= Reading
    <2> SUFFICES ASSUME \A r \in Receivers : pc[r] \notin Receiving
                 PROVE  At(Receivers, Before) <= Reading
      OBVIOUS
    <2> DEFINE A == {r \in Receivers : pc[r] \in Before}
    <2>1. \A r \in A : r \in mtx /\ pc[r] = "advance"
      BY <1>1 DEF Before, Receiving, Critical
    <2>2. CASE A = {}
      BY <1>2, <2>2, FS_EmptySet, ReadingIs DEF At
    <2>3. CASE A # {}
      <3>1. PICK r : r \in A
        BY <2>3
      <3>2. A = {r} /\ r \in Receivers /\ pc[r] = "advance"
        BY <1>1, <2>1, <3>1
      <3>3. At(Receivers, Before) = 1 /\ Reading = 1
        BY <3>2, FS_Singleton, ReadingIs DEF At
      <3> QED
        BY <3>3
    <2> QED
      BY <2>2, <2>3
  <1>5. Reading \in {0, 1}
    BY ReadingIs
  <1> QED
    BY <1>2, <1>3, <1>4, <1>5

(* The mutex comes free. *)
Free == mtx = {}
Holds(t) == pc[t] \in Critical
HolderFrees(t) == Holds(t) ~> Free

FreeRule == CaseRule(Thread, LAMBDA p : Holds(p), Free)

LockLeads(t) == (pc[t] = "lock") ~> (pc[t] = "copy")
UnlockLeads(t) == ((pc[t] = "unlock") ~> Free) /\ ((pc[t] = "unlock") ~> (pc[t] = "release"))

(* A call can go on but for the mutex, and there too when it is free; an    *)
(* item that is announced can be taken.  Each step is guarded by its own pc *)
(* and by what is said here, so these hold by the guards; they are          *)
(* hypotheses below because the provers do not expand ENABLED.              *)
SenderCanGoOn(t) ==
    pc[t] \in {"copy", "advance", "release"} => ENABLED <<SendOn(t)>>_vars

ReceiverCanGoOn(t) ==
    \/ pc[t] \in {"copy", "advance", "release"}
    \/ pc[t] = "out" /\ items > 0
    => ENABLED <<RecvOn(t)>>_vars

MutexCanGoOn(t) ==
    /\ pc[t] = "lock" /\ mtx = {} => ENABLED <<Lock(t)>>_vars
    /\ pc[t] = "unlock" => ENABLED <<Unlock(t)>>_vars

CallsCanGoOn ==
    /\ \A t \in Senders : SenderCanGoOn(t)
    /\ \A t \in Receivers : ReceiverCanGoOn(t)
    /\ \A t \in Thread : MutexCanGoOn(t)

LEMMA CallersAreFair ==
    /\ FairSpec => \A t \in Senders : SenderIsFair(t)
    /\ FairSpec => \A t \in Receivers : ReceiverIsFair(t)
    /\ FairSpec => \A t \in Thread : MutexIsFair(t)
  BY PTL DEF FairSpec

LEMMA HolderGoesOn ==
    ASSUME NEW t \in Thread
    PROVE  /\ Inv /\ [Next]_vars /\ pc[t] = "copy" => (pc[t] = "copy")' \/ (pc[t] = "advance")'
           /\ Inv /\ [Next]_vars /\ pc[t] = "advance" => (pc[t] = "advance")' \/ (pc[t] = "unlock")'
           /\ Inv /\ [Next]_vars /\ pc[t] = "unlock" => (pc[t] = "unlock")' \/ Free'
           /\ Inv /\ [Next]_vars /\ pc[t] = "release" => (pc[t] = "release")' \/ (pc[t] = "out")'
           /\ Inv /\ [Next]_vars /\ pc[t] = "lock" => (pc[t] = "lock")' \/ (pc[t] = "copy")'
           /\ Inv /\ [Next]_vars /\ pc[t] = "out" => (pc[t] = "out")' \/ (pc[t] = "lock")'
           /\ Inv /\ [Next]_vars /\ pc[t] = "unlock" => (pc[t] = "unlock")' \/ (pc[t] = "release")'
           /\ Inv /\ <<Unlock(t)>>_vars => Free'
  <1>1. ASSUME Inv, [Next]_vars
        PROVE  /\ pc'[t] \in {pc[t], Onward[pc[t]]}
               /\ pc[t] = "unlock" /\ pc'[t] # "unlock" => mtx' = {}
    BY <1>1, CallMoves
  <1>2. Unlock(t) => [Next]_vars
    BY DEF Next
  <1>3. Inv /\ Unlock(t) => pc[t] = "unlock" /\ pc'[t] = "release"
    BY DEF Inv, TypeOK, Unlock, Goto
  <1> QED
    BY <1>1, <1>2, <1>3 DEF Onward, Free

LEMMA UnlockIs ==
    ASSUME NEW t \in Thread
    PROVE  FairSpec /\ []CallsCanGoOn => UnlockLeads(t)
  <1>1. FairSpec => MutexIsFair(t)
    BY CallersAreFair
  <1>2. CallsCanGoOn => MutexCanGoOn(t)
    BY DEF CallsCanGoOn
  <1>3. MutexCanGoOn(t) /\ pc[t] = "unlock" => ENABLED <<Unlock(t)>>_vars
    BY DEF MutexCanGoOn
  <1>4. Inv /\ <<Unlock(t)>>_vars => (pc[t] = "release")'
    BY DEF Inv, TypeOK, Unlock, Goto
  <1> QED
    BY <1>1, <1>2, <1>3, <1>4, HolderGoesOn, AlwaysInv, PTL
    DEF FairSpec, Spec, MutexIsFair, UnlockLeads

LEMMA SenderFrees ==
    ASSUME NEW t \in Senders
    PROVE  FairSpec /\ []CallsCanGoOn => HolderFrees(t)
  <1>1. t \in Thread
    BY DEF Thread
  <1>2. Inv /\ <<SendOn(t)>>_vars /\ pc[t] = "copy" => (pc[t] = "advance")'
    BY <1>1 DEF Inv, TypeOK, SendOn, CopyIn, AdvanceHead, GiveItems, Goto
  <1>3. Inv /\ <<SendOn(t)>>_vars /\ pc[t] = "advance" => (pc[t] = "unlock")'
    BY <1>1 DEF Inv, TypeOK, SendOn, CopyIn, AdvanceHead, GiveItems, Goto
  <1>4. FairSpec => SenderIsFair(t)
    BY CallersAreFair
  <1>5. CallsCanGoOn => SenderCanGoOn(t)
    BY DEF CallsCanGoOn
  <1>6. SenderCanGoOn(t) /\ (pc[t] = "copy" \/ pc[t] = "advance") => ENABLED <<SendOn(t)>>_vars
    BY DEF SenderCanGoOn
  <1>7. FairSpec /\ []CallsCanGoOn => UnlockLeads(t)
    BY <1>1, UnlockIs
  <1>8. Holds(t) => pc[t] = "copy" \/ pc[t] = "advance" \/ pc[t] = "unlock"
    BY DEF Holds, Critical
  <1> QED
    BY <1>1, <1>2, <1>3, <1>4, <1>5, <1>6, <1>7, <1>8, HolderGoesOn, AlwaysInv, PTL
    DEF FairSpec, Spec, SenderIsFair, HolderFrees, UnlockLeads

LEMMA ReceiverFrees ==
    ASSUME NEW t \in Receivers
    PROVE  FairSpec /\ []CallsCanGoOn => HolderFrees(t)
  <1>1. t \in Thread
    BY DEF Thread
  <1>2. Inv /\ <<RecvOn(t)>>_vars /\ pc[t] = "copy" => (pc[t] = "advance")'
    BY <1>1 DEF Inv, TypeOK, RecvOn, TakeItems, CopyOut, AdvanceTail, GiveSpace, Goto
  <1>3. Inv /\ <<RecvOn(t)>>_vars /\ pc[t] = "advance" => (pc[t] = "unlock")'
    BY <1>1 DEF Inv, TypeOK, RecvOn, TakeItems, CopyOut, AdvanceTail, GiveSpace, Goto
  <1>4. FairSpec => ReceiverIsFair(t)
    BY CallersAreFair
  <1>5. CallsCanGoOn => ReceiverCanGoOn(t)
    BY DEF CallsCanGoOn
  <1>6. ReceiverCanGoOn(t) /\ (pc[t] = "copy" \/ pc[t] = "advance") => ENABLED <<RecvOn(t)>>_vars
    BY DEF ReceiverCanGoOn
  <1>7. FairSpec /\ []CallsCanGoOn => UnlockLeads(t)
    BY <1>1, UnlockIs
  <1>8. Holds(t) => pc[t] = "copy" \/ pc[t] = "advance" \/ pc[t] = "unlock"
    BY DEF Holds, Critical
  <1> QED
    BY <1>1, <1>2, <1>3, <1>4, <1>5, <1>6, <1>7, <1>8, HolderGoesOn, AlwaysInv, PTL
    DEF FairSpec, Spec, ReceiverIsFair, HolderFrees, UnlockLeads

LEMMA MutexComesFree == FairSpec /\ []CallsCanGoOn /\ FreeRule => []<>Free
  <1>1. FairSpec /\ []CallsCanGoOn => \A p \in Thread : HolderFrees(p)
    BY SenderFrees, ReceiverFrees DEF Thread
  <1>2. FairSpec /\ []CallsCanGoOn /\ FreeRule => ((\E p \in Thread : Holds(p)) ~> Free)
    BY <1>1, PTL DEF FreeRule, CaseRule, HolderFrees
  <1>3. Inv => Free \/ \E p \in Thread : Holds(p)
    BY DEF Inv, TypeOK, Exclusive, Free, Holds
  <1> QED
    BY <1>2, <1>3, AlwaysInv, PTL DEF FairSpec

(* Who waits for the mutex gets it. *)
LEMMA WaiterGetsIt ==
    ASSUME NEW t \in Thread
    PROVE  FairSpec /\ []CallsCanGoOn /\ FreeRule => LockLeads(t)
  <1>1. FairSpec => MutexIsFair(t)
    BY CallersAreFair
  <1>2. CallsCanGoOn => MutexCanGoOn(t)
    BY DEF CallsCanGoOn
  <1>3. MutexCanGoOn(t) /\ pc[t] = "lock" /\ Free => ENABLED <<Lock(t)>>_vars
    BY DEF MutexCanGoOn, Free
  <1>4. Inv /\ <<Lock(t)>>_vars => (pc[t] = "copy")'
    BY DEF Inv, TypeOK, Lock, Goto
  <1> QED
    BY <1>1, <1>2, <1>3, <1>4, HolderGoesOn, MutexComesFree, AlwaysInv, PTL
    DEF FairSpec, Spec, MutexIsFair, LockLeads

(* A sender puts its item into the ring. *)
Due(n) == \E k \in Nat : Awaits(n, k)
Sending(n, t) == pc[t] = "lock" /\ item[t] = n
SendLeads(n, t) == Sending(n, t) ~> Due(n)

StartRule(n) == CaseRule(Senders, LAMBDA p : Sending(n, p), Due(n))

LEMMA PutBrings ==
    ASSUME Inv, Inv', [Next]_vars, NEW t \in Senders, pc[t] = "advance", pc'[t] = "unlock"
    PROVE  Due(item[t])'
  <1>1. t \in Thread
    BY DEF Thread
  <1>2. Contents' = Append(Contents, item[t])
    BY <1>1, Effects DEF Abstract!Put
  <1>3. Contents \in Seq(Nat)
    BY ContentsIs
  <1>4. item[t] \in Nat /\ item'[t] = item[t]
    BY <1>1, CallMoves DEF Inv, TypeOK
  <1>5. PICK k \in Nat : k = Len(Contents) + 1
    BY <1>3
  <1>6. k \in 1..Len(Contents') /\ Contents'[k] = item[t]
    BY <1>2, <1>3, <1>4, <1>5, AppendProperties
  <1>7. Awaits(item[t], k)'
    BY <1>4, <1>6 DEF Awaits
  <1> QED
    BY <1>5, <1>7 DEF Due

LEMMA SenderPuts ==
    ASSUME NEW n, NEW t \in Senders
    PROVE  FairSpec /\ []CallsCanGoOn /\ FreeRule => SendLeads(n, t)
  <1> DEFINE Here(l) == pc[t] = l /\ item[t] = n
  <1>1. t \in Thread
    BY DEF Thread
  <1>2. Inv /\ Inv' /\ [Next]_vars /\ Here("lock") => Here("lock")' \/ Here("copy")'
    BY <1>1, CallMoves DEF Onward
  <1>3. Inv /\ Inv' /\ [Next]_vars /\ Here("copy") => Here("copy")' \/ Here("advance")'
    BY <1>1, CallMoves DEF Onward
  <1>4. Inv /\ Inv' /\ [Next]_vars /\ Here("advance") => Here("advance")' \/ Due(n)'
    <2> SUFFICES ASSUME Inv, Inv', [Next]_vars, Here("advance")
                 PROVE  Here("advance")' \/ Due(n)'
      OBVIOUS
    <2>1. /\ pc'[t] = "advance" \/ pc'[t] = "unlock"
          /\ item'[t] = item[t] /\ item[t] = n
      BY <1>1, CallMoves DEF Onward
    <2>2. pc'[t] = "unlock" => Due(item[t])'
      BY PutBrings
    <2>3. Due(item[t])' => Due(n)'
      BY <2>1 DEF Due, Awaits
    <2> QED
      BY <2>1, <2>2, <2>3
  <1>5. Inv /\ <<SendOn(t)>>_vars /\ Here("copy") => ~Here("copy")'
    BY <1>1 DEF Inv, TypeOK, SendOn, CopyIn, AdvanceHead, GiveItems, Goto
  <1>6. Inv /\ <<SendOn(t)>>_vars /\ Here("advance") => ~Here("advance")'
    BY <1>1 DEF Inv, TypeOK, SendOn, CopyIn, AdvanceHead, GiveItems, Goto
  <1>7. FairSpec => SenderIsFair(t)
    BY CallersAreFair
  <1>8. CallsCanGoOn => SenderCanGoOn(t)
    BY DEF CallsCanGoOn
  <1>9. SenderCanGoOn(t) /\ (Here("copy") \/ Here("advance")) => ENABLED <<SendOn(t)>>_vars
    BY DEF SenderCanGoOn
  <1>10. FairSpec /\ []CallsCanGoOn /\ FreeRule => LockLeads(t)
    BY <1>1, WaiterGetsIt
  <1>11. (Here("lock") => pc[t] = "lock" /\ ~(pc[t] = "copy")) /\ (Sending(n, t) => Here("lock"))
    BY DEF Sending
  <1> HIDE DEF Here
  <1> QED
    BY <1>2, <1>3, <1>4, <1>5, <1>6, <1>7, <1>8, <1>9, <1>10, <1>11, AlwaysInv, PTL
    DEF FairSpec, Spec, SenderIsFair, SendLeads, LockLeads

(* A receiver that went past its wait brings every item nearer. *)
Nearer(n, k) == Got(n) \/ \E j \in 1..k - 1 : Awaits(n, j)
Reads(n, k, r) == Awaits(n, k) /\ pc[r] \in Receiving
ReadLeads(n, k, r) == Reads(n, k, r) ~> Nearer(n, k)

ReadRule(n, k) == CaseRule(Receivers, LAMBDA p : Reads(n, k, p), Nearer(n, k))

LEMMA RankMoves ==
    ASSUME NEW n \in Nat, NEW k \in Nat
    PROVE  Inv /\ Inv' /\ [Next]_vars /\ Awaits(n, k) => Awaits(n, k)' \/ Nearer(n, k)'
  <1> SUFFICES ASSUME Inv, Inv', [Next]_vars, Awaits(n, k)
               PROVE  Awaits(n, k)' \/ Nearer(n, k)'
    OBVIOUS
  <1>1. \/ Awaits(n, k)'
        \/ \E j \in Nat : k = j + 1 /\ Awaits(n, j)'
        \/ Got(n)'
    BY ItemNearsNext DEF ItemNears
  <1>2. ASSUME NEW j \in Nat, k = j + 1, Awaits(n, j)' PROVE Nearer(n, k)'
    <2>1. j \in 1..k - 1
      BY <1>2 DEF Awaits
    <2> QED
      BY <1>2, <2>1 DEF Nearer
  <1> QED
    BY <1>1, <1>2 DEF Nearer

LEMMA ReadBrings ==
    ASSUME NEW n, NEW k \in Nat, NEW r \in Receivers, Inv, Inv', [Next]_vars,
           Awaits(n, k), pc[r] = "copy", pc'[r] # "copy"
    PROVE  Nearer(n, k)'
  <1>1. r \in Thread /\ r \notin Senders
    BY ThreadsAssumption DEF Thread
  <1>2. pc'[r] = "advance"
    BY <1>1, CallMoves DEF Onward
  <1>3. Abstract!Get(r)
    BY <1>1, <1>2, Effects
  <1>4. IF k = 1 THEN Got(n)' ELSE Awaits(n, k - 1)'
    BY <1>3, GetBrings
  <1>5. k # 1 => k - 1 \in 1..k - 1
    BY DEF Awaits
  <1> QED
    BY <1>4, <1>5 DEF Nearer

LEMMA ReaderBrings ==
    ASSUME NEW n \in Nat, NEW k \in Nat, NEW r \in Receivers
    PROVE  FairSpec /\ []CallsCanGoOn /\ FreeRule => ReadLeads(n, k, r)
  <1> DEFINE Here(l) == Awaits(n, k) /\ pc[r] = l
  <1>1. r \in Thread
    BY DEF Thread
  <1>2. Inv /\ Inv' /\ [Next]_vars /\ Here("lock") =>
            Here("lock")' \/ Here("copy")' \/ Nearer(n, k)'
    BY <1>1, CallMoves, RankMoves DEF Onward
  <1>3. Inv /\ Inv' /\ [Next]_vars /\ Here("copy") => Here("copy")' \/ Nearer(n, k)'
    BY <1>1, RankMoves, ReadBrings
  <1>4. Inv /\ <<RecvOn(r)>>_vars /\ Here("copy") => ~Here("copy")'
    BY <1>1 DEF Inv, TypeOK, RecvOn, TakeItems, CopyOut, AdvanceTail, GiveSpace, Goto
  <1>5. FairSpec => ReceiverIsFair(r)
    BY CallersAreFair
  <1>6. CallsCanGoOn => ReceiverCanGoOn(r)
    BY DEF CallsCanGoOn
  <1>7. ReceiverCanGoOn(r) /\ Here("copy") => ENABLED <<RecvOn(r)>>_vars
    BY DEF ReceiverCanGoOn
  <1>8. FairSpec /\ []CallsCanGoOn /\ FreeRule => LockLeads(r)
    BY <1>1, WaiterGetsIt
  <1>9. /\ Here("lock") => pc[r] = "lock" /\ ~(pc[r] = "copy")
        /\ Reads(n, k, r) => Here("lock") \/ Here("copy")
    BY DEF Reads, Receiving
  <1> HIDE DEF Here
  <1> QED
    BY <1>2, <1>3, <1>4, <1>5, <1>6, <1>7, <1>8, <1>9, AlwaysInv, PTL
    DEF FairSpec, Spec, ReceiverIsFair, ReadLeads, LockLeads

(* A sender that has put its item announces one. *)
Announced(n, k) == Awaits(n, k) /\ items > 0
Announces(n, k, t) == Awaits(n, k) /\ pc[t] \in Behind
AnnounceLeads(n, k, t) == Announces(n, k, t) ~> (Nearer(n, k) \/ Announced(n, k))

AnnounceRule(n, k) ==
    CaseRule(Senders, LAMBDA p : Announces(n, k, p), Nearer(n, k) \/ Announced(n, k))

LEMMA AnnouncerTells ==
    ASSUME NEW n \in Nat, NEW k \in Nat, NEW t \in Senders
    PROVE  FairSpec /\ []CallsCanGoOn => AnnounceLeads(n, k, t)
  <1> DEFINE Here(l) == Awaits(n, k) /\ pc[t] = l
  <1>1. t \in Thread
    BY DEF Thread
  <1>2. Inv /\ Inv' /\ [Next]_vars /\ Here("unlock") =>
            Here("unlock")' \/ Here("release")' \/ Nearer(n, k)'
    BY <1>1, CallMoves, RankMoves DEF Onward
  <1>3. Inv /\ Inv' /\ [Next]_vars /\ Here("release") =>
            Here("release")' \/ Announced(n, k)' \/ Nearer(n, k)'
    BY <1>1, CallMoves, RankMoves DEF Announced
  <1>4. Inv /\ <<SendOn(t)>>_vars /\ Here("release") => ~Here("release")'
    BY <1>1 DEF Inv, TypeOK, SendOn, CopyIn, AdvanceHead, GiveItems, Goto
  <1>5. FairSpec => SenderIsFair(t)
    BY CallersAreFair
  <1>6. CallsCanGoOn => SenderCanGoOn(t)
    BY DEF CallsCanGoOn
  <1>7. SenderCanGoOn(t) /\ Here("release") => ENABLED <<SendOn(t)>>_vars
    BY DEF SenderCanGoOn
  <1>8. FairSpec /\ []CallsCanGoOn => UnlockLeads(t)
    BY <1>1, UnlockIs
  <1>9. /\ Here("unlock") => pc[t] = "unlock" /\ ~(pc[t] = "release")
        /\ Announces(n, k, t) => Here("unlock") \/ Here("release")
    BY DEF Announces, Behind
  <1> HIDE DEF Here
  <1> QED
    BY <1>2, <1>3, <1>4, <1>5, <1>6, <1>7, <1>8, <1>9, AlwaysInv, PTL
    DEF FairSpec, Spec, SenderIsFair, AnnounceLeads, UnlockLeads

(* A receiver comes back and takes what is announced, if no other does. *)
Read(n, k) == \E p \in Receivers : Reads(n, k, p)
TakeLeads(n, k) == Announced(n, k) ~> (Nearer(n, k) \/ Read(n, k))

LEMMA ReceiverTakes ==
    ASSUME NEW n \in Nat, NEW k \in Nat, NEW t \in Receivers
    PROVE  FairSpec /\ []CallsCanGoOn => TakeLeads(n, k)
  <1> DEFINE Here(l) == Announced(n, k) /\ pc[t] = l
             Goal == Nearer(n, k) \/ Read(n, k)
  <1>1. t \in Thread /\ \A r \in Receivers : r \in Thread
    BY DEF Thread
  <1>2. Inv /\ Inv' /\ [Next]_vars /\ Announced(n, k) => Announced(n, k)' \/ Goal'
    <2> SUFFICES ASSUME Inv, Inv', [Next]_vars, Announced(n, k)
                 PROVE  Announced(n, k)' \/ Goal'
      OBVIOUS
    <2>1. Awaits(n, k)' \/ Nearer(n, k)'
      BY RankMoves DEF Announced
    <2>2. items' > 0 \/ \E r \in Receivers : pc'[r] = "lock"
      BY <1>1, CallMoves DEF Announced
    <2> QED
      BY <2>1, <2>2 DEF Announced, Read, Reads, Receiving
  <1>3. Inv /\ Inv' /\ <<RecvOn(t)>>_vars /\ Here("out") => Goal'
    <2> SUFFICES ASSUME Inv, Inv', RecvOn(t), Here("out") PROVE Goal'
      OBVIOUS
    <2>1. pc'[t] = "lock"
      BY <1>1 DEF Inv, TypeOK, RecvOn, TakeItems, CopyOut, AdvanceTail, GiveSpace, Goto
    <2>2. [Next]_vars
      BY DEF RecvOn, Next, RecvStep
    <2>3. Awaits(n, k)' \/ Nearer(n, k)'
      BY <2>2, RankMoves DEF Announced
    <2> QED
      BY <2>1, <2>3 DEF Read, Reads, Receiving
  <1>4. /\ Inv /\ <<RecvOn(t)>>_vars /\ pc[t] = "advance" => (pc[t] = "unlock")'
        /\ Inv /\ <<RecvOn(t)>>_vars /\ pc[t] = "release" => (pc[t] = "out")'
    BY <1>1 DEF Inv, TypeOK, RecvOn, TakeItems, CopyOut, AdvanceTail, GiveSpace, Goto
  <1>5. FairSpec => ReceiverIsFair(t)
    BY CallersAreFair
  <1>6. CallsCanGoOn => ReceiverCanGoOn(t)
    BY DEF CallsCanGoOn
  <1>7. /\ ReceiverCanGoOn(t) /\ (pc[t] = "advance" \/ pc[t] = "release")
                => ENABLED <<RecvOn(t)>>_vars
        /\ ReceiverCanGoOn(t) /\ Here("out") => ENABLED <<RecvOn(t)>>_vars
    BY DEF ReceiverCanGoOn, Announced
  <1>8. FairSpec /\ []CallsCanGoOn => UnlockLeads(t)
    BY <1>1, UnlockIs
  <1>9. Inv /\ Announced(n, k) =>
            \/ Here("out") \/ pc[t] = "advance" \/ pc[t] = "unlock" \/ pc[t] = "release"
            \/ Goal
    BY <1>1 DEF Inv, TypeOK, Announced, Read, Reads, Receiving
  <1>10. Announced(n, k) /\ pc[t] = "out" => Here("out")
    OBVIOUS
  <1>11. Inv /\ Inv' /\ [Next]_vars /\ pc[t] = "out" => (pc[t] = "out")' \/ (pc[t] = "lock")'
    BY <1>1, HolderGoesOn
  <1>12. Inv /\ Inv' /\ [Next]_vars /\ Announced(n, k) /\ (pc[t] = "lock")' => Goal'
    <2> SUFFICES ASSUME Inv, Inv', [Next]_vars, Announced(n, k), pc'[t] = "lock" PROVE Goal'
      OBVIOUS
    <2>1. Awaits(n, k)' \/ Nearer(n, k)'
      BY RankMoves DEF Announced
    <2> QED
      BY <2>1 DEF Read, Reads, Receiving
  <1> HIDE DEF Here, Goal
  <1>13. FairSpec /\ []CallsCanGoOn => (Announced(n, k) ~> Goal)
    BY <1>1, <1>2, <1>3, <1>4, <1>5, <1>6, <1>7, <1>8, <1>9, <1>10, <1>11, <1>12,
       HolderGoesOn, AlwaysInv, PTL
    DEF FairSpec, Spec, ReceiverIsFair, UnlockLeads
  <1> QED
    BY <1>13 DEF Goal, TakeLeads

(* From one place in the ring to a nearer one. *)
RankLeads(n, k) == Awaits(n, k) ~> Nearer(n, k)

LEMMA OneNearer ==
    ASSUME NEW n \in Nat, NEW k \in Nat, Receivers # {}
    PROVE  FairSpec /\ []CallsCanGoOn /\ FreeRule /\ ReadRule(n, k) /\ AnnounceRule(n, k) =>
               RankLeads(n, k)
  <1> DEFINE Telling == \E p \in Senders : Announces(n, k, p)
  <1>1. Inv /\ Awaits(n, k) => Announced(n, k) \/ Telling \/ Read(n, k)
    <2> SUFFICES ASSUME Inv, Awaits(n, k) PROVE Announced(n, k) \/ Telling \/ Read(n, k)
      OBVIOUS
    <2>1. Len(Contents) = count - Reading /\ count - Reading \in Nat
      BY ContentsIs, LengthAssumption
    <2>2. count - Reading > 0
      BY <2>1 DEF Awaits
    <2> QED
      BY <2>2, SomebodyIsDue DEF Announced, Announces, Read, Reads
  <1>2. FairSpec /\ []CallsCanGoOn /\ FreeRule => \A p \in Receivers : ReadLeads(n, k, p)
    BY ReaderBrings
  <1>3. FairSpec /\ []CallsCanGoOn /\ FreeRule /\ ReadRule(n, k) => (Read(n, k) ~> Nearer(n, k))
    BY <1>2, PTL DEF ReadRule, CaseRule, ReadLeads, Read
  <1>4. FairSpec /\ []CallsCanGoOn => \A p \in Senders : AnnounceLeads(n, k, p)
    BY AnnouncerTells
  <1>5. FairSpec /\ []CallsCanGoOn /\ AnnounceRule(n, k) =>
            (Telling ~> (Nearer(n, k) \/ Announced(n, k)))
    BY <1>4, PTL DEF AnnounceRule, CaseRule, AnnounceLeads
  <1>6. FairSpec /\ []CallsCanGoOn => TakeLeads(n, k)
    BY ReceiverTakes
  <1> HIDE DEF Telling
  <1> QED
    BY <1>1, <1>3, <1>5, <1>6, AlwaysInv, PTL DEF FairSpec, RankLeads, TakeLeads

RankRule(n) == LatticeRule(LAMBDA k : Awaits(n, k), Got(n))

ReceiveRules(n) ==
    /\ FreeRule
    /\ StartRule(n)
    /\ RankRule(n)
    /\ \A k \in Nat : ReadRule(n, k) /\ AnnounceRule(n, k)

SentLeads(n) ==
    (\E t \in Senders : pc[t] = "lock" /\ item[t] = n) ~> (\E r \in Receivers : item[r] = n)

(* Nothing that is sent stays in the ring for ever, whatever its length and *)
(* the number of callers, if there is a receiver.  The hypotheses are       *)
(* CallsCanGoOn, which the guards of the steps give, and instances of the   *)
(* rules of LeadsToRules, truths of logic.                                  *)
THEOREM EverythingIsReceivedByRank ==
    Receivers # {} =>
        (FairSpec /\ []CallsCanGoOn /\ (\A n \in Nat : ReceiveRules(n)) => EverythingIsReceived)
  <1> SUFFICES ASSUME Receivers # {}
               PROVE  FairSpec /\ []CallsCanGoOn /\ (\A n \in Nat : ReceiveRules(n)) =>
                          EverythingIsReceived
    OBVIOUS
  <1>1. ASSUME NEW n \in Nat
        PROVE  FairSpec /\ []CallsCanGoOn /\ ReceiveRules(n) =>
                   SentLeads(n)
    <2>1. FairSpec /\ []CallsCanGoOn /\ ReceiveRules(n) => \A k \in Nat : RankLeads(n, k)
      BY OneNearer DEF ReceiveRules
    <2>2. FairSpec /\ []CallsCanGoOn /\ ReceiveRules(n) => (Due(n) ~> Got(n))
      BY <2>1, PTL DEF ReceiveRules, RankRule, LatticeRule, RankLeads, Nearer, Due
    <2>3. FairSpec /\ []CallsCanGoOn /\ ReceiveRules(n) => \A p \in Senders : SendLeads(n, p)
      BY SenderPuts DEF ReceiveRules
    <2>4. FairSpec /\ []CallsCanGoOn /\ ReceiveRules(n) =>
              ((\E p \in Senders : Sending(n, p)) ~> Due(n))
      BY <2>3, PTL DEF ReceiveRules, StartRule, CaseRule, SendLeads
    <2>5. (\E t \in Senders : pc[t] = "lock" /\ item[t] = n) => \E p \in Senders : Sending(n, p)
      BY DEF Sending
    <2>6. Got(n) => \E r \in Receivers : item[r] = n
      BY DEF Got
    <2> QED
      BY <2>2, <2>4, <2>5, <2>6, PTL DEF SentLeads
  <1>2. 1..MaxSends \subseteq Nat
    BY MaxSendsAssumption
  <1>3. FairSpec /\ []CallsCanGoOn /\ (\A n \in Nat : ReceiveRules(n)) =>
            \A n \in 1..MaxSends : SentLeads(n)
    BY <1>1, <1>2
  <1> QED
    BY <1>3 DEF EverythingIsReceived, SentLeads
=============================================================================
