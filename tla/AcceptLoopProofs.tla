-------------------------- MODULE AcceptLoopProofs --------------------------
(***************************************************************************)
(* Proofs about AcceptLoop, for any number of slots, processes and         *)
(* connections.                                                            *)
(*                                                                         *)
(* NotWedged holds because fork makes a tree whose numbers grow: a process *)
(* can only wait for processes younger than itself, whatever pids it has   *)
(* inherited, so the youngest of the living waits for nobody who lives.    *)
(***************************************************************************)
EXTENDS AcceptLoop, WellFoundedInduction, TLAPS

(* The first process is never served, so it neither returns nor ends, but  *)
(* where the read beyond pid ends it; it has no parent that could reap it. *)
RootState == {"accept", "wait"} \cup (IF OverreadKills THEN {"zombie"} ELSE {})

RootStays == ppc[Root] \in RootState

(* Processes are born in the order of their numbers.                       *)
BornInOrder ==
  \A p, q \in Proc : p < q /\ ppc[q] # "unborn" => ppc[p] # "unborn"

(* Every process but the first is younger than its parent.                 *)
Younger ==
  /\ parent[Root] = Root
  /\ \A c \in Proc \ {Root} : ppc[c] # "unborn" => parent[c] < c

Inv == TypeOK /\ pending <= made /\ RootStays /\ BornInOrder /\ Younger

-----------------------------------------------------------------------------
(* Processes are numbers, of which any set that is not empty has a last.   *)
LEMMA ProcFacts == Proc \subseteq Nat /\ Root \in Proc
BY AcceptAssumption DEF Proc, Root

LEMMA Youngest ==
  ASSUME NEW S \in SUBSET Proc, S # {}
  PROVE  \E p \in S : \A q \in S : q <= p
<1> DEFINE T == {MaxProc - p : p \in S}
<1>1. MaxProc \in Nat /\ \A p \in S : p \in Nat /\ p <= MaxProc
  BY AcceptAssumption DEF Proc
<1>2. T \subseteq Nat /\ T # {}
  BY <1>1
<1>3. PICK x \in T : \A y \in T : ~ (<<y, x>> \in OpToRel(<, Nat))
  BY <1>2, WFMin, NatLessThanWellFounded
<1>4. \A y \in T : ~ (y < x)
  BY <1>2, <1>3 DEF OpToRel
<1>5. PICK p \in S : x = MaxProc - p
  OBVIOUS
<1>6. \A q \in S : ~ (MaxProc - q < MaxProc - p)
  BY <1>4, <1>5
<1>7. \A q \in S : q <= p
  BY <1>1, <1>6
<1>8. QED
  BY <1>7

-----------------------------------------------------------------------------
(* A process takes a turn of its loop and no process is born.              *)
LEMMA TurnStep ==
  ASSUME Inv, UNCHANGED <<parent, made>>,
         ppc' \in [Proc -> ProcState],
         \A q \in Proc : (ppc'[q] = "unborn") = (ppc[q] = "unborn"),
         ppc'[Root] \in RootState,
         idx' \in [Proc -> 0..(Slots - 1)],
         pid' \in [Proc -> [0..(Slots - 1) -> Pid]],
         pending' \in Nat, pending' <= pending
  PROVE  Inv'
<1>1. pending \in 0..MaxConn /\ MaxConn \in Nat /\ made \in 0..MaxConn
  BY AcceptAssumption DEF Inv, TypeOK
<1>2. pending' \in 0..MaxConn /\ pending' <= made'
  BY <1>1 DEF Inv
<1>3. TypeOK'
  BY <1>2 DEF Inv, TypeOK
<1>4. RootStays' /\ BornInOrder' /\ Younger'
  BY DEF Inv, RootStays, BornInOrder, Younger
<1>5. QED
  BY <1>2, <1>3, <1>4 DEF Inv

(* What the parent's branch does to its own index, array and place.        *)
LEMMA KeepFacts ==
  ASSUME TypeOK, NEW p \in Proc, NEW x \in Pid
  PROVE  /\ KeptPid(p, x) \in [Proc -> [0..(Slots - 1) -> Pid]]
         /\ NextIdx(p) \in [Proc -> 0..(Slots - 1)]
         /\ NextPpc(p) \in [Proc -> ProcState]
         /\ NextPpc(p)[p] \in {"accept", "wait"}
         /\ \A q \in Proc \ {p} : NextPpc(p)[q] = ppc[q]
<1>1. Slots \in Nat /\ Slots >= 2
  BY AcceptAssumption
<1>2. KeptPid(p, x) \in [Proc -> [0..(Slots - 1) -> Pid]]
  BY DEF TypeOK, KeptPid
<1>3. idx[p] \in 0..(Slots - 1)
  BY DEF TypeOK
<1>4. (IF Full(idx[p] + 1) THEN 0 ELSE idx[p] + 1) \in 0..(Slots - 1)
  BY <1>1, <1>3 DEF Full
<1>5. NextIdx(p) \in [Proc -> 0..(Slots - 1)]
  BY <1>4 DEF TypeOK, NextIdx
<1>6. QED
  BY <1>2, <1>5 DEF TypeOK, NextPpc, ProcState

LEMMA ConnectStep == Inv /\ Connect => Inv'
<1> SUFFICES ASSUME Inv, Connect PROVE Inv'
  OBVIOUS
<1>1. /\ made \in 0..MaxConn /\ pending \in 0..MaxConn /\ MaxConn \in Nat
      /\ pending <= made /\ made < MaxConn
      /\ made' = made + 1 /\ pending' = pending + 1
      /\ UNCHANGED <<ppc, parent, idx, pid>>
  BY AcceptAssumption DEF Inv, TypeOK, Connect
<1>2. made' \in 0..MaxConn /\ pending' \in 0..MaxConn /\ pending' <= made'
  BY <1>1
<1>3. TypeOK'
  BY <1>1, <1>2 DEF Inv, TypeOK
<1>4. QED
  BY <1>1, <1>2, <1>3 DEF Inv, RootStays, BornInOrder, Younger

(* The child of a fork takes the first number that is free, which is       *)
(* greater than that of any process.                                       *)
LEMMA AcceptStep ==
  ASSUME Inv, NEW p \in Proc, Accept(p)
  PROVE  Inv'
<1>1. PICK c \in Unborn :
        /\ \A q \in Unborn : c <= q
        /\ parent' = [parent EXCEPT ![c] = p]
        /\ pid' = [KeptPid(p, c) EXCEPT ![c] = pid[p]]
        /\ idx' = [NextIdx(p) EXCEPT ![c] = idx[p]]
        /\ ppc' = [NextPpc(p) EXCEPT ![c] = "serve"]
  BY DEF Accept
<1>2. /\ ppc[p] = "accept" /\ pending > 0 /\ pending' = pending - 1 /\ made' = made
      /\ c \in Proc /\ ppc[c] = "unborn"
      /\ TypeOK
  BY DEF Accept, Unborn, Inv
<1>3. c # p /\ c # Root /\ c \in Pid
  BY <1>2, ProcFacts, AcceptAssumption DEF Inv, RootStays, RootState, Pid, Proc
<1>4. p < c
  <2>1. ~ (c < p)
    BY <1>2 DEF Inv, BornInOrder
  <2>2. QED
    BY <1>2, <1>3, <2>1, ProcFacts
<1>5. /\ pid' \in [Proc -> [0..(Slots - 1) -> Pid]]
      /\ idx' \in [Proc -> 0..(Slots - 1)]
      /\ ppc' \in [Proc -> ProcState]
      /\ ppc'[c] = "serve" /\ ppc'[p] \in {"accept", "wait"}
      /\ \A q \in Proc \ {p, c} : ppc'[q] = ppc[q]
  BY <1>1, <1>2, <1>3, KeepFacts DEF TypeOK, ProcState
<1>6. pending' \in 0..MaxConn /\ pending' <= made'
  BY <1>2, AcceptAssumption DEF TypeOK, Inv
<1>7. parent' \in [Proc -> Proc] /\ parent'[c] = p
      /\ \A q \in Proc \ {c} : parent'[q] = parent[q]
  BY <1>1, <1>2 DEF TypeOK
<1>8. TypeOK'
  BY <1>2, <1>5, <1>6, <1>7 DEF TypeOK
<1>9. RootStays'
  BY <1>3, <1>5, ProcFacts DEF Inv, RootStays, RootState
<1>10. BornInOrder'
  <2>1. SUFFICES ASSUME NEW q \in Proc, NEW r \in Proc, q < r, ppc'[r] # "unborn",
                        ppc'[q] = "unborn"
                 PROVE  FALSE
    BY DEF BornInOrder
  <2>2. q # c /\ q # p /\ ppc[q] = "unborn"
    BY <1>5, <2>1
  <2>3. c < q
    BY <1>1, <2>2, ProcFacts DEF Unborn
  <2>4. ppc[r] # "unborn"
    BY <1>2, <1>5, <2>1, <2>3, ProcFacts
  <2>5. QED
    BY <2>1, <2>2, <2>4 DEF Inv, BornInOrder
<1>11. Younger'
  BY <1>2, <1>3, <1>4, <1>5, <1>7, ProcFacts DEF Inv, Younger
<1>12. QED
  BY <1>6, <1>8, <1>9, <1>10, <1>11 DEF Inv

LEMMA ForkFailsStep ==
  ASSUME Inv, NEW p \in Proc, ForkFails(p)
  PROVE  Inv'
<1>1. /\ ppc[p] = "accept" /\ pending > 0 /\ pending' = pending - 1
      /\ pid' = KeptPid(p, AnyChild) /\ idx' = NextIdx(p) /\ ppc' = NextPpc(p)
      /\ UNCHANGED <<parent, made>> /\ TypeOK
  BY DEF ForkFails, Inv
<1>2. AnyChild \in Pid
  BY AcceptAssumption DEF AnyChild, Pid
<1>3. /\ pid' \in [Proc -> [0..(Slots - 1) -> Pid]]
      /\ idx' \in [Proc -> 0..(Slots - 1)]
      /\ ppc' \in [Proc -> ProcState]
      /\ ppc'[p] \in {"accept", "wait"}
      /\ \A q \in Proc \ {p} : ppc'[q] = ppc[q]
  BY <1>1, <1>2, KeepFacts
<1>4. pending' \in Nat /\ pending' <= pending
  BY <1>1 DEF TypeOK
<1>5. \A q \in Proc : (ppc'[q] = "unborn") = (ppc[q] = "unborn")
  BY <1>1, <1>3
<1>6. ppc'[Root] \in RootState
  BY <1>3, ProcFacts DEF Inv, RootStays, RootState
<1>7. QED
  BY <1>1, <1>3, <1>4, <1>5, <1>6, TurnStep

(* A child in socketThread returns, is killed, or loses its client.        *)
LEMMA ServedStep ==
  ASSUME Inv, NEW p \in Proc, Return(p) \/ Killed(p) \/ Swallow(p) \/ Vanish(p)
  PROVE  Inv'
<1>1. PICK x \in {"accept", "zombie", "spin"} :
        /\ ppc[p] = "serve" /\ ppc' = [ppc EXCEPT ![p] = x]
        /\ UNCHANGED <<parent, idx, pid, pending, made>>
  BY DEF Return, Killed, Swallow, Vanish
<1>2. ppc' \in [Proc -> ProcState]
      /\ \A q \in Proc : ppc'[q] = IF q = p THEN x ELSE ppc[q]
  BY <1>1 DEF Inv, TypeOK, ProcState
<1>3. ppc'[Root] \in RootState
  BY <1>1, <1>2, ProcFacts DEF Inv, RootStays, RootState
<1>4. \A q \in Proc : (ppc'[q] = "unborn") = (ppc[q] = "unborn")
  BY <1>1, <1>2
<1>5. /\ idx' \in [Proc -> 0..(Slots - 1)]
      /\ pid' \in [Proc -> [0..(Slots - 1) -> Pid]]
      /\ pending' \in Nat /\ pending' <= pending
  BY <1>1 DEF Inv, TypeOK
<1>6. QED
  BY <1>1, <1>2, <1>3, <1>4, <1>5, TurnStep

(* A turn of the waiting loop reaps a child, or finds none.                *)
LEMMA WaitStep ==
  ASSUME Inv, NEW p \in Proc, WaitNext(p)
  PROVE  Inv'
<1>1. /\ ppc[p] = "wait" /\ UNCHANGED <<parent, pid, pending, made>>
      /\ idx' = [idx EXCEPT ![p] = IF @ + 1 = Slots THEN 0 ELSE @ + 1]
      /\ TypeOK /\ Slots \in Nat /\ Slots >= 2
  BY AcceptAssumption DEF WaitNext, Inv
<1>2. PICK to \in AfterWait(p) :
        \/ ppc' = [ppc EXCEPT ![p] = to]
        \/ \E c \in Awaited(p, pid[p][idx[p]]) :
             ppc[c] = "zombie" /\ ppc' = [[ppc EXCEPT ![p] = to] EXCEPT ![c] = "reaped"]
  BY DEF WaitNext
<1> DEFINE next == [ppc EXCEPT ![p] = to]
<1>3. /\ next \in [Proc -> ProcState]
      /\ next[p] \in RootState \cup {"wait"} /\ next[p] # "unborn"
      /\ \A q \in Proc \ {p} : next[q] = ppc[q]
  BY <1>1, <1>2 DEF TypeOK, ProcState, RootState, AfterWait
<1>4. /\ ppc' \in [Proc -> ProcState]
      /\ \A q \in Proc : (ppc'[q] = "unborn") = (ppc[q] = "unborn")
      /\ ppc'[Root] \in RootState
  <2>1. CASE ppc' = next
    BY <1>1, <1>3, <2>1, ProcFacts DEF Inv, RootStays, RootState
  <2>2. ASSUME NEW c \in Awaited(p, pid[p][idx[p]]),
               ppc[c] = "zombie", ppc' = [next EXCEPT ![c] = "reaped"]
        PROVE  /\ ppc' \in [Proc -> ProcState]
               /\ \A q \in Proc : (ppc'[q] = "unborn") = (ppc[q] = "unborn")
               /\ ppc'[Root] \in RootState
    <3>1. c \in Proc \ {p} /\ parent[c] = p
      BY DEF Awaited, Children
    <3>2. c # Root
      BY <3>1 DEF Inv, Younger
    <3>3. QED
      BY <1>1, <1>3, <2>2, <3>1, <3>2, ProcFacts DEF Inv, RootStays, RootState, ProcState
  <2>3. QED
    BY <1>2, <2>1, <2>2
<1>5. /\ idx[p] \in 0..(Slots - 1)
      /\ (IF idx[p] + 1 = Slots THEN 0 ELSE idx[p] + 1) \in 0..(Slots - 1)
  BY <1>1 DEF TypeOK
<1>6. idx' \in [Proc -> 0..(Slots - 1)]
  BY <1>1, <1>5 DEF TypeOK
<1>7. pid' \in [Proc -> [0..(Slots - 1) -> Pid]] /\ pending' \in Nat /\ pending' <= pending
  BY <1>1 DEF TypeOK
<1>8. QED
  BY <1>1, <1>4, <1>6, <1>7, TurnStep

-----------------------------------------------------------------------------
LEMMA InitInv == Init => Inv
<1> SUFFICES ASSUME Init PROVE Inv
  OBVIOUS
<1>1. Slots \in Nat /\ Slots >= 2 /\ MaxProc \in Nat /\ MaxConn \in Nat
  BY AcceptAssumption
<1>2. PICK garbage \in {AnyChild, NoChild} :
        pid = [p \in Proc |-> [k \in 0..(Slots - 1) |-> garbage]]
  BY DEF Init
<1>3. garbage \in Pid
  BY <1>1 DEF AnyChild, NoChild, Pid
<1>4. pid \in [Proc -> [0..(Slots - 1) -> Pid]]
  BY <1>2, <1>3
<1>5. TypeOK
  BY <1>1, <1>4, ProcFacts DEF Init, TypeOK, ProcState
<1>6. RootStays /\ Younger
  BY ProcFacts DEF Init, RootStays, RootState, Younger
<1>7. BornInOrder
  BY DEF Init, BornInOrder, Proc, Root
<1>8. QED
  BY <1>5, <1>6, <1>7 DEF Inv, Init

LEMMA NextInv == Inv /\ [Next]_vars => Inv'
<1> SUFFICES ASSUME Inv, [Next]_vars PROVE Inv'
  OBVIOUS
<1>1. CASE UNCHANGED vars
  BY <1>1 DEF vars, Inv, TypeOK, RootStays, BornInOrder, Younger
<1>2. CASE Next
  BY <1>2, ConnectStep, AcceptStep, ForkFailsStep, ServedStep, WaitStep DEF Next, Step
<1>3. QED
  BY <1>1, <1>2

THEOREM Invariance == Spec => []Inv
<1>1. QED
  BY InitInv, NextInv, PTL DEF Spec

-----------------------------------------------------------------------------
(* Every variable has its type: the index at which a process keeps a pid,  *)
(* and that of the pid it gives to waitpid, is within the array, whatever  *)
(* index it was forked with (main, i).  The printf after waitpid reads one *)
(* further, at the last turn beyond the array.                             *)
THEOREM TypeCorrect == Spec => []TypeOK
<1>1. Inv => TypeOK
  BY DEF Inv
<1>2. QED
  BY Invariance, <1>1, PTL

(* The waiting never wedges the server, however many processes there are   *)
(* and whatever they have inherited: the youngest process alive can go on  *)
(* (main, waitpid).  Unless the read beyond pid ends processes, there is   *)
(* always one alive, the first.                                            *)
THEOREM NeverWedged == Spec => []NotWedged
<1>1. Inv => NotWedged
  <2> SUFFICES ASSUME Inv PROVE NotWedged
    OBVIOUS
  <2>1. Live \in SUBSET Proc /\ (OverreadKills \/ Root \in Live)
    BY ProcFacts DEF Live, Inv, RootStays, RootState
  <2> SUFFICES ASSUME Live # {} PROVE NotWedged
    BY <2>1 DEF NotWedged
  <2>2. PICK p \in Live : \A q \in Live : q <= p
    BY <2>1, Youngest
  <2>3. CASE ppc[p] \in {"accept", "serve", "spin"}
    BY <2>2, <2>3 DEF NotWedged
  <2>4. CASE ppc[p] = "wait"
    <3>1. \A c \in Children(p) : p < c
      BY <2>1, ProcFacts DEF Children, Inv, Younger
    <3>2. \A c \in Children(p) : ppc[c] = "zombie"
      <4>1. ASSUME NEW c \in Children(p) PROVE c \notin Live
        BY <2>1, <2>2, <3>1, ProcFacts DEF Children
      <4>2. QED
        BY <4>1 DEF Children, Live, Inv, TypeOK, ProcState
    <3>3. WaitReturns(p)
      BY <3>2 DEF WaitReturns, Awaited
    <3>4. QED
      BY <2>4, <3>3 DEF NotWedged
  <2>5. QED
    BY <2>2, <2>3, <2>4 DEF Live
<1>2. QED
  BY Invariance, <1>1, PTL

=============================================================================
