------------------------- MODULE RegisterFrame_proof -------------------------
(***************************************************************************)
(* The registers and the stack of interrupted code are kept, for every     *)
(* depth of nesting and every size of the C frames: an invariant that says *)
(* of each frame what its stub has saved or restored so far.               *)
(***************************************************************************)
EXTENDS RegisterFrame, TLAPS

\* The stack that frames above the l-th may take.
Floor(l) == (MaxDepth - l) * (32 + CWords)

\* The stack pointer and the registers of frame l: the processor's, or those the
\* exception above it was taken with.
Sp(l) == IF l = depth THEN sp ELSE taken[l + 1].sp
X(l) == IF l = depth THEN x ELSE taken[l + 1].x

Base(l) == taken[l].sp - 32

OnFrame == {"store", "move", "link", "call", "c_begin", "branch", "load", "load_link",
            "release", "reboot"}

Types == /\ x \in [Reg -> Value] /\ sp \in Int
         /\ mem \in [Address -> Value]
         /\ depth \in 0..MaxDepth
         /\ pc \in [Frame -> Place] /\ pair \in [Frame -> 0..15]
         /\ kept \in [Frame -> [CalleeSaved -> Value]]
         /\ taken \in [Frame -> [x : [Reg -> Value], sp : Int]]

\* Where frame l is on the stack.
Placed(l) ==
    /\ taken[l].sp >= Floor(l) + 32 + CWords
    /\ pc[l] \in {"room", "eret"} => Sp(l) = taken[l].sp
    /\ pc[l] \in OnFrame => Sp(l) = Base(l)
    /\ pc[l] = "c_end" => Sp(l) = Base(l) - CWords
    /\ pc[l] # "none"

\* What frame l has saved, and what it has restored.
SavedTo(l, m) == \A n \in Reg : n < m => mem[Base(l) + n] = taken[l].x[n]
LoadedTo(l, m) == \A n \in Reg : n < m => X(l)[n] = taken[l].x[n]
Linked(l) == SavedTo(l, 31) /\ mem[Base(l) + 31] = <<"sp", Base(l)>>

Kept(l) ==
    /\ pc[l] \in {"store", "load"} => pair[l] \in 0..14
    /\ pc[l] \in {"room", "store", "move"} => X(l) = taken[l].x
    /\ pc[l] = "store" => SavedTo(l, 2 * pair[l])
    /\ pc[l] \in {"move", "link"} => SavedTo(l, 30)
    /\ pc[l] = "link" => X(l)[30] = taken[l].x[30] /\ X(l)[9] = <<"sp", Base(l)>>
    /\ pc[l] \in {"call", "c_begin", "c_end", "branch", "load", "load_link"} => Linked(l)
    /\ pc[l] = "load" => LoadedTo(l, 2 * pair[l])
    /\ pc[l] = "load_link" => LoadedTo(l, 30)
    /\ pc[l] \in {"release", "eret"} => LoadedTo(l, 31)

\* A frame lies below all that the frames under it still need.
Limit(l) == IF pc[l] \in {"room", "eret"} THEN taken[l].sp ELSE Base(l)
Stacked == \A l, m \in 1..depth : l < m => taken[m].sp <= Limit(l)

Bottom == IF depth = 0 THEN sp = Top ELSE taken[1].sp = Top
ThreadStack == \A a \in Address : a >= Top => mem[a] = <<"stack", a>>

FrameInv == /\ Types /\ Stacked /\ Bottom /\ ThreadStack
            /\ \A l \in 1..depth : Placed(l) /\ Kept(l)

-----------------------------------------------------------------------------
\* Every frame takes its share of the stack, and the shares add up.
LEMMA FloorSteps ==
    /\ Top \in Nat
    /\ \A l \in 0..MaxDepth : Floor(l) \in Nat
    /\ \A l \in Frame : Floor(l - 1) = Floor(l) + 32 + CWords
    /\ Floor(0) = Top
<1> DEFINE K == 32 + CWords
<1>0. K \in Nat /\ MaxDepth \in Nat /\ MaxDepth > 0 BY FrameAssumption
<1>1. \A a, b \in Nat : a * b \in Nat BY SMT
<1>2. \A a \in Nat : (a + 1) * K = a * K + K BY <1>0, SMT
<1>3. ASSUME NEW l \in 0..MaxDepth PROVE Floor(l) \in Nat
  <2>1. MaxDepth - l \in Nat BY <1>0
  <2> QED BY <2>1, <1>0, <1>1 DEF Floor
<1>4. ASSUME NEW l \in Frame PROVE Floor(l - 1) = Floor(l) + 32 + CWords
  <2>1. MaxDepth - l \in Nat /\ MaxDepth - (l - 1) = (MaxDepth - l) + 1
        BY <1>0 DEF Frame
  <2>2. (MaxDepth - (l - 1)) * K = (MaxDepth - l) * K + K BY <2>1, <1>2
  <2>3. Floor(l - 1) = (MaxDepth - (l - 1)) * K /\ Floor(l) = (MaxDepth - l) * K
        BY DEF Floor
  <2>4. l \in 0..MaxDepth BY <1>0 DEF Frame
  <2>5. Floor(l) \in Nat BY <2>4, <1>3
  <2>6. Floor(l - 1) = Floor(l) + K BY <2>2, <2>3
  <2>7. CWords \in Nat BY FrameAssumption
  <2> QED BY <2>5, <2>6, <2>7
<1>5. Floor(0) = Top BY <1>0 DEF Floor, Top
<1>6. Top \in Nat BY <1>5, <1>3, <1>0
<1> QED BY <1>3, <1>4, <1>5, <1>6

LEMMA Initially == Init => FrameInv
<1> SUFFICES ASSUME Init PROVE FrameInv OBVIOUS
<1> USE FloorSteps, FrameAssumption DEF Init
<1>1. Types
  <2>1. x \in [Reg -> Value] BY DEF Reg, Value
  <2>2. mem \in [Address -> Value] BY DEF Address, Value
  <2>3. kept \in [Frame -> [CalleeSaved -> Value]] BY DEF CalleeSaved, Value
  <2>4. taken \in [Frame -> [x : [Reg -> Value], sp : Int]] BY <2>1
  <2>5. pc \in [Frame -> Place] /\ pair \in [Frame -> 0..15] BY DEF Place
  <2> QED BY <2>1, <2>2, <2>3, <2>4, <2>5 DEF Types
<1>2. Stacked /\ Bottom /\ ThreadStack BY DEF Stacked, Bottom, ThreadStack
<1> QED BY <1>1, <1>2 DEF FrameInv

-----------------------------------------------------------------------------
\* The frames are on the stack, and under the thread's.
LEMMA Bounded ==
    ASSUME FrameInv, NEW l \in 1..depth
    PROVE  /\ l \in Frame /\ taken[l].sp \in Int /\ taken[l].x \in [Reg -> Value]
           /\ Base(l) \in Int
           /\ taken[l].sp = Base(l) + 32 /\ taken[l].sp <= Top
           /\ Base(l) >= Floor(l) + CWords /\ Floor(l) \in Nat /\ CWords \in Nat
           /\ \A n \in 0..31 : Base(l) + n \in Address
<1>1. l \in Frame /\ depth \in 0..MaxDepth BY FrameAssumption DEF FrameInv, Types, Frame
<1>2. taken[l] \in [x : [Reg -> Value], sp : Int] BY <1>1 DEF FrameInv, Types
<1>3. Floor(l) \in Nat /\ CWords \in Nat /\ Top \in Nat
      BY <1>1, FloorSteps, FrameAssumption DEF Frame
<1>4. Base(l) >= Floor(l) + CWords BY <1>2, <1>3 DEF FrameInv, Placed, Base
<1>5. taken[l].sp <= Top
  <2>1. CASE l = 1 BY <2>1, <1>1, <1>3 DEF FrameInv, Bottom
  <2>2. CASE l # 1
    <3>1. 1 \in 1..depth /\ 1 \in Frame /\ 1 < l /\ taken[1].sp = Top
          BY <2>2, <1>1, <1>3, FrameAssumption DEF FrameInv, Bottom, Frame
    <3>2. taken[l].sp <= Limit(1) BY <3>1 DEF FrameInv, Stacked
    <3> QED BY <3>1, <3>2, <1>2, <1>3 DEF Limit, Base
  <2> QED BY <2>1, <2>2
<1>6. ASSUME NEW n \in 0..31 PROVE Base(l) + n \in Address
      BY <1>2, <1>3, <1>4, <1>5, FrameAssumption DEF Base, Address
<1> QED BY <1>1, <1>2, <1>3, <1>4, <1>5, <1>6 DEF Base

\* A step of the running frame that leaves alone the stack it found, and keeps its
\* own part of the invariant, keeps the whole.
LEMMA StepKeeps ==
    ASSUME NEW d \in Frame, FrameInv, Types', depth = d, depth' = d, taken' = taken,
           \A l \in 1..(d - 1) : pc'[l] = pc[l] /\ pair'[l] = pair[l],
           \A a \in Address : a >= taken[d].sp => mem'[a] = mem[a],
           Placed(d)', Kept(d)'
    PROVE  FrameInv'
<1>0. d \in Nat /\ d >= 1 /\ d \in 1..depth BY FrameAssumption DEF Frame
<1>1. ASSUME NEW l \in 1..(d - 1) PROVE Placed(l)' /\ Kept(l)'
  <2>0. l \in 1..depth /\ l # d /\ l < d BY <1>0
  <2>1. Sp(l)' = Sp(l) /\ X(l)' = X(l) /\ Base(l)' = Base(l) /\ taken'[l] = taken[l]
        BY <2>0 DEF Sp, X, Base
  <2>2. Placed(l) /\ Kept(l) BY <2>0 DEF FrameInv
  <2>3. pc'[l] = pc[l] /\ pair'[l] = pair[l] OBVIOUS
  <2>4. Placed(l)' BY <2>1, <2>2, <2>3 DEF Placed
  <2>5. taken[d].sp <= Limit(l) BY <2>0, <1>0 DEF FrameInv, Stacked
  <2>6. ASSUME pc[l] \notin {"room", "eret"}, NEW n \in 0..31
        PROVE  mem'[Base(l) + n] = mem[Base(l) + n]
    <3>1. taken[d].sp <= Base(l) BY <2>5, <2>6 DEF Limit
    <3>2. Base(l) + n \in Address /\ Base(l) \in Int BY <2>0, Bounded
    <3>3. taken[d].sp \in Int BY <1>0, Bounded
    <3> QED BY <3>1, <3>2, <3>3
  <2>7. ASSUME pc[l] \notin {"room", "eret"}
        PROVE  /\ \A m \in Int : SavedTo(l, m)' <=> SavedTo(l, m)
               /\ Linked(l)' <=> Linked(l)
    <3>1. \A n \in Reg : mem'[Base(l) + n] = mem[Base(l) + n] BY <2>6, <2>7 DEF Reg
    <3>2. mem'[Base(l) + 31] = mem[Base(l) + 31] BY <2>6, <2>7
    <3>3. ASSUME NEW m \in Int PROVE SavedTo(l, m)' <=> SavedTo(l, m)
          BY <3>1, <2>1 DEF SavedTo
    <3> QED BY <3>2, <3>3, <2>1 DEF Linked
  <2>8. \A m : LoadedTo(l, m)' <=> LoadedTo(l, m) BY <2>1 DEF LoadedTo
  <2>9. pc[l] = "store" => 2 * pair[l] \in Int BY <2>2 DEF Kept
  <2> QED BY <2>1, <2>2, <2>3, <2>4, <2>7, <2>8, <2>9 DEF Kept
<1>2. \A l \in 1..depth' : Placed(l)' /\ Kept(l)' BY <1>0, <1>1
<1>3. Stacked'
  <2>1. ASSUME NEW l \in 1..d, NEW m \in 1..d, l < m PROVE taken'[m].sp <= Limit(l)'
    <3>1. l \in 1..(d - 1) /\ l \in 1..depth /\ m \in 1..depth BY <2>1, <1>0
    <3>2. Limit(l)' = Limit(l) BY <3>1 DEF Limit, Base
    <3> QED BY <2>1, <3>1, <3>2 DEF FrameInv, Stacked
  <2> QED BY <2>1 DEF Stacked
<1>4. Bottom' BY <1>0 DEF FrameInv, Bottom
<1>5. ThreadStack'
  <2>1. taken[d].sp <= Top /\ taken[d].sp \in Int /\ Top \in Nat
        BY <1>0, Bounded, FloorSteps
  <2>2. ASSUME NEW a \in Address, a >= Top PROVE mem'[a] = <<"stack", a>>
    <3>1. a \in Int BY DEF Address
    <3>2. mem'[a] = mem[a] BY <2>1, <2>2, <3>1
    <3> QED BY <2>2, <3>2 DEF FrameInv, ThreadStack
  <2> QED BY <2>2 DEF ThreadStack
<1> QED BY <1>2, <1>3, <1>4, <1>5 DEF FrameInv

-----------------------------------------------------------------------------
LEMMA TakeKeeps == FrameInv /\ Take => FrameInv'
<1> SUFFICES ASSUME FrameInv, Take PROVE FrameInv' OBVIOUS
<1>a. depth + 1 \in Frame BY FrameAssumption DEF FrameInv, Types, Take, Frame
<1>b. PICK d \in Frame : d = depth + 1 BY <1>a
<1>0. /\ depth \in 0..MaxDepth /\ MaxDepth \in Nat /\ d = depth + 1 /\ depth' = d
      /\ taken' = [taken EXCEPT ![d] = [x |-> x, sp |-> sp]]
      /\ pc' = [pc EXCEPT ![d] = "room"] /\ UNCHANGED <<x, sp, mem, pair, kept>>
      BY <1>b, FrameAssumption DEF FrameInv, Types, Take
<1>1. Types'
  <2>1. taken' \in [Frame -> [x : [Reg -> Value], sp : Int]] BY <1>0 DEF FrameInv, Types
  <2>2. pc' \in [Frame -> Place] BY <1>0 DEF FrameInv, Types, Place
  <2>3. depth' \in 0..MaxDepth BY <1>0 DEF Frame
  <2> QED BY <1>0, <2>1, <2>2, <2>3 DEF FrameInv, Types
<1>2. taken'[d] = [x |-> x, sp |-> sp] BY <1>0 DEF FrameInv, Types
<1>3. ASSUME NEW l \in 1..depth
      PROVE  /\ l \in Frame /\ l # d /\ taken'[l] = taken[l] /\ pc'[l] = pc[l]
             /\ Sp(l)' = Sp(l) /\ X(l)' = X(l) /\ Base(l)' = Base(l)
  <2>1. l \in Frame /\ l # d BY <1>0 DEF Frame
  <2>2. taken'[l] = taken[l] /\ pc'[l] = pc[l] BY <1>0, <2>1 DEF FrameInv, Types
  <2>3. CASE l = depth
    <3>1. depth' # l /\ l + 1 = d BY <2>3, <1>0
    <3>2. Sp(l)' = sp /\ X(l)' = x BY <3>1, <1>2 DEF Sp, X
    <3> QED BY <2>1, <2>2, <2>3, <3>2 DEF Sp, X, Base
  <2>4. CASE l # depth
    <3>1. l + 1 \in Frame /\ l + 1 # d /\ depth' # l BY <2>4, <1>0 DEF Frame
    <3>2. taken'[l + 1] = taken[l + 1] BY <1>0, <3>1 DEF FrameInv, Types
    <3> QED BY <2>1, <2>2, <2>4, <3>1, <3>2 DEF Sp, X, Base
  <2> QED BY <2>3, <2>4
<1>4. ASSUME NEW l \in 1..depth PROVE Placed(l)' /\ Kept(l)'
  <2>1. Placed(l) /\ Kept(l) BY DEF FrameInv
  <2>2. Placed(l)' BY <2>1, <1>3 DEF Placed
  <2>3. /\ \A m : SavedTo(l, m)' <=> SavedTo(l, m)
        /\ \A m : LoadedTo(l, m)' <=> LoadedTo(l, m)
        BY <1>0, <1>3 DEF SavedTo, LoadedTo
  <2>4. Linked(l)' <=> Linked(l) BY <2>3, <1>0, <1>3 DEF Linked
  <2> QED BY <2>1, <2>2, <2>3, <2>4, <1>0, <1>3 DEF Kept
\* Where the running frame stands, there is room for another.
<1>5. ASSUME depth > 0
      PROVE  /\ sp >= Floor(d) + 32 + CWords /\ sp <= Limit(depth)
             /\ Limit(depth) <= taken[depth].sp
  <2>1. depth \in 1..depth /\ depth \in Frame BY <1>5, <1>0 DEF Frame
  <2>2. Placed(depth) /\ pc[depth] # "halt" /\ pc[depth] \in Place
        BY <2>1 DEF FrameInv, Types, Take, At
  <2>3. Floor(depth) = Floor(d) + 32 + CWords
    <3>1. d - 1 = depth BY <1>0
    <3> QED BY <1>0, <3>1, FloorSteps
  <2>4. sp = Sp(depth) BY DEF Sp
  <2>5. sp \in Int /\ Floor(d) \in Nat BY <1>0, FloorSteps DEF FrameInv, Types, Frame
  <2> QED BY <2>1, <2>2, <2>3, <2>4, <2>5, Bounded DEF Placed, Place, OnFrame, Limit
<1>6. Placed(d)' /\ Kept(d)'
  <2>1. sp >= Floor(d) + 32 + CWords
    <3>1. CASE depth = 0
      <4>1. sp = Top /\ d = 1 /\ d - 1 = 0 BY <3>1, <1>0 DEF FrameInv, Bottom
      <4>2. Floor(d - 1) = Floor(d) + 32 + CWords /\ Floor(d) \in Nat /\ Top \in Nat
            BY <1>0, FloorSteps DEF Frame
      <4>3. Floor(0) = Top BY FloorSteps
      <4> QED BY <4>1, <4>2, <4>3, FrameAssumption
    <3> QED BY <3>1, <1>0, <1>5
  <2>2. Sp(d)' = sp /\ X(d)' = x BY <1>0 DEF Sp, X
  <2>3. pc'[d] = "room" BY <1>0 DEF FrameInv, Types
  <2>4. taken'[d].sp = sp /\ taken'[d].x = x BY <1>2
  <2> QED BY <2>1, <2>2, <2>3, <2>4 DEF Placed, Kept, OnFrame, Floor
<1>7. Stacked'
  <2>1. ASSUME NEW l \in 1..d, NEW m \in 1..d, l < m PROVE taken'[m].sp <= Limit(l)'
    <3>1. l \in 1..depth BY <2>1, <1>0
    <3>2. Limit(l)' = Limit(l) BY <3>1, <1>3 DEF Limit
    <3>3. CASE m # d
      <4>1. m \in 1..depth BY <3>3, <1>0
      <4> QED BY <2>1, <3>1, <3>2, <4>1, <1>3 DEF FrameInv, Stacked
    <3>4. CASE m = d
      <4>1. taken'[m].sp = sp BY <3>4, <1>2
      <4>2. CASE l = depth BY <4>1, <4>2, <3>1, <3>2, <1>0, <1>5
      <4>3. CASE l # depth
        <5>1. depth \in 1..depth /\ l < depth /\ depth > 0 BY <4>3, <3>1, <1>0
        <5>2. taken[depth].sp <= Limit(l) BY <5>1, <3>1 DEF FrameInv, Stacked
        <5>3. taken[depth].sp \in Int /\ Base(depth) \in Int /\ sp \in Int
              BY <5>1, Bounded DEF FrameInv, Types
        <5>4. Base(l) \in Int /\ taken[l].sp \in Int BY <3>1, Bounded
        <5> QED BY <5>1, <5>2, <5>3, <5>4, <4>1, <3>2, <1>5 DEF Limit
      <4> QED BY <4>2, <4>3
    <3> QED BY <3>3, <3>4
  <2> QED BY <2>1, <1>0 DEF Stacked
<1>8. Bottom'
  <2>1. depth' # 0 BY <1>0
  <2>2. CASE depth = 0 BY <2>1, <2>2, <1>0, <1>2 DEF FrameInv, Bottom
  <2>3. CASE depth # 0
    <3>1. 1 \in 1..depth BY <2>3, <1>0
    <3> QED BY <2>1, <2>3, <3>1, <1>3 DEF FrameInv, Bottom
  <2> QED BY <2>2, <2>3
<1>9. ThreadStack' BY <1>0 DEF FrameInv, ThreadStack
<1>10. \A l \in 1..depth' : Placed(l)' /\ Kept(l)' BY <1>0, <1>4, <1>6
<1> QED BY <1>1, <1>7, <1>8, <1>9, <1>10 DEF FrameInv

-----------------------------------------------------------------------------
\* What is known of the running frame.
LEMMA Running ==
    ASSUME FrameInv, NEW p, At(p)
    PROVE  \E d \in Frame : /\ d = depth /\ d \in 1..depth /\ pc[d] = p
                            /\ Placed(d) /\ Kept(d) /\ Sp(d) = sp /\ X(d) = x
<1>1. depth \in Frame /\ depth \in 1..depth BY FrameAssumption DEF FrameInv, Types, At, Frame
<1> QED BY <1>1 DEF FrameInv, At, Sp, X

\* Its control moves, and nothing else that another frame has.
LEMMA Moves ==
    ASSUME FrameInv, NEW d \in Frame, d = depth, NEW p, Goto(p),
           depth' = depth, taken' = taken
    PROVE  /\ pc'[d] = p /\ depth' = d /\ \A l \in 1..(d - 1) : pc'[l] = pc[l]
           /\ Sp(d)' = sp' /\ X(d)' = x' /\ Base(d)' = Base(d)
           /\ p \in Place => pc' \in [Frame -> Place]
<1>1. \A l \in 1..(d - 1) : l \in Frame /\ l # d BY FrameAssumption DEF Frame
<1> QED BY <1>1 DEF FrameInv, Types, Goto, Sp, X, Base

\* A pair index is set.
LEMMA Pairs ==
    ASSUME FrameInv, NEW d \in Frame, d = depth, NEW n \in 0..15,
           pair' = [pair EXCEPT ![depth] = n]
    PROVE  /\ pair'[d] = n /\ \A l \in 1..(d - 1) : pair'[l] = pair[l]
           /\ pair' \in [Frame -> 0..15]
<1>1. \A l \in 1..(d - 1) : l \in Frame /\ l # d BY FrameAssumption DEF Frame
<1> QED BY <1>1 DEF FrameInv, Types

LEMMA MakeRoomKeeps == FrameInv /\ MakeRoom => FrameInv'
<1> SUFFICES ASSUME FrameInv, MakeRoom PROVE FrameInv' OBVIOUS
<1>1. PICK d \in Frame : /\ d = depth /\ d \in 1..depth /\ pc[d] = "room"
                         /\ Placed(d) /\ Kept(d) /\ Sp(d) = sp /\ X(d) = x
      BY Running DEF MakeRoom
<1>2. /\ pc'[d] = "store" /\ depth' = d /\ \A l \in 1..(d - 1) : pc'[l] = pc[l]
      /\ Sp(d)' = sp' /\ X(d)' = x' /\ Base(d)' = Base(d) /\ pc' \in [Frame -> Place]
      BY <1>1, Moves DEF MakeRoom, Place
<1>3. /\ pair'[d] = 0 /\ \A l \in 1..(d - 1) : pair'[l] = pair[l]
      /\ pair' \in [Frame -> 0..15]
      BY <1>1, Pairs DEF MakeRoom
<1>4. sp' = taken[d].sp - 32 /\ sp' \in Int
      BY <1>1 DEF MakeRoom, FrameWords, Placed, FrameInv, Types
<1>5. Types' BY <1>2, <1>3, <1>4 DEF FrameInv, Types, MakeRoom
<1>6. Placed(d)' BY <1>1, <1>2, <1>4 DEF Placed, Base, OnFrame, MakeRoom, Floor
<1>7. Kept(d)' BY <1>1, <1>2, <1>3 DEF Kept, SavedTo, Reg, MakeRoom
<1> QED BY <1>1, <1>2, <1>3, <1>5, <1>6, <1>7, StepKeeps DEF MakeRoom

LEMMA StorePairKeeps == FrameInv /\ StorePair => FrameInv'
<1> SUFFICES ASSUME FrameInv, StorePair PROVE FrameInv' OBVIOUS
<1>1. PICK d \in Frame : /\ d = depth /\ d \in 1..depth /\ pc[d] = "store"
                         /\ Placed(d) /\ Kept(d) /\ Sp(d) = sp /\ X(d) = x
      BY Running DEF StorePair
<1> DEFINE next == IF pair[d] = 14 THEN "move" ELSE "store"
<1>2. /\ pc'[d] = next /\ depth' = d /\ \A l \in 1..(d - 1) : pc'[l] = pc[l]
      /\ Sp(d)' = sp' /\ X(d)' = x' /\ Base(d)' = Base(d) /\ pc' \in [Frame -> Place]
      BY <1>1, Moves DEF StorePair, Place
<1>3. PICK q \in 0..14 : q = pair[d] BY <1>1 DEF Kept
<1>4. /\ pair'[d] = q + 1 /\ \A l \in 1..(d - 1) : pair'[l] = pair[l]
      /\ pair' \in [Frame -> 0..15]
  <2>1. q + 1 \in 0..15 BY <1>3
  <2>2. pair' = [pair EXCEPT ![depth] = q + 1] BY <1>1, <1>3 DEF StorePair
  <2> QED BY <1>1, <2>1, <2>2, Pairs
<1>5. sp = Base(d) /\ x = taken[d].x BY <1>1 DEF Placed, OnFrame, Kept
<1>6. /\ 2 * q \in Reg /\ 2 * q + 1 \in Reg
      /\ Base(d) + 2 * q \in Address /\ Base(d) + 2 * q + 1 \in Address
  <2>1. 2 * q \in 0..31 /\ 2 * q + 1 \in 0..31 /\ 2 * q \in 0..30 /\ 2 * q + 1 \in 0..30
        BY <1>3
  <2>2. Base(d) + (2 * q + 1) \in Address /\ Base(d) \in Int BY <1>1, <2>1, Bounded
  <2>3. Base(d) + 2 * q + 1 = Base(d) + (2 * q + 1) BY <2>2, <1>3
  <2> QED BY <1>1, <2>1, <2>2, <2>3, Bounded DEF Reg
<1>7. mem' = [mem EXCEPT ![Base(d) + 2 * q] = x[2 * q],
                         ![Base(d) + 2 * q + 1] = x[2 * q + 1]]
      BY <1>1, <1>3, <1>5 DEF StorePair, StoreOffset
<1>8. mem' \in [Address -> Value] BY <1>6, <1>7 DEF FrameInv, Types
<1>9. Types' BY <1>2, <1>4, <1>8 DEF FrameInv, Types, StorePair
<1>10. Base(d) \in Int /\ taken[d].sp = Base(d) + 32 BY <1>1, Bounded
<1>11. ASSUME NEW n \in Reg, n < 2 * (q + 1) PROVE mem'[Base(d) + n] = taken[d].x[n]
  <2>1. n \in Int /\ n \in 0..31 BY DEF Reg
  <2>2. Base(d) + n \in Address BY <2>1, <1>1, Bounded
  <2>3. CASE n < 2 * q
    <3>1. mem[Base(d) + n] = taken[d].x[n] BY <2>3, <1>1, <1>3 DEF Kept, SavedTo
    <3>2. Base(d) + n # Base(d) + 2 * q /\ Base(d) + n # Base(d) + 2 * q + 1
          BY <2>1, <2>3, <1>3, <1>10
    <3> QED BY <3>1, <3>2, <2>2, <1>7 DEF FrameInv, Types
  <2>4. CASE n = 2 * q
    <3>1. Base(d) + 2 * q # Base(d) + 2 * q + 1 BY <1>3, <1>10
    <3> QED BY <3>1, <2>4, <1>5, <1>6, <1>7 DEF FrameInv, Types
  <2>5. CASE n = 2 * q + 1
    <3>1. Base(d) + n = Base(d) + 2 * q + 1 BY <2>5, <1>3, <1>10
    <3> QED BY <3>1, <2>5, <1>5, <1>6, <1>7 DEF FrameInv, Types
  <2> QED BY <2>1, <2>3, <2>4, <2>5, <1>3, <1>11
<1>12. Placed(d)' BY <1>1, <1>2 DEF Placed, Base, OnFrame, StorePair, Floor
<1>13. SavedTo(d, 2 * (q + 1))'
       BY <1>2, <1>11 DEF SavedTo, StorePair
<1>14. Kept(d)'
  <2>1. CASE q = 14 BY <2>1, <1>1, <1>2, <1>3, <1>5, <1>13 DEF Kept, StorePair
  <2>2. CASE q # 14 BY <2>2, <1>1, <1>2, <1>3, <1>4, <1>5, <1>13 DEF Kept, StorePair
  <2> QED BY <2>1, <2>2
<1>15. ASSUME NEW a \in Address, a >= taken[d].sp PROVE mem'[a] = mem[a]
  <2>1. a \in Int BY DEF Address
  <2>2. a # Base(d) + 2 * q /\ a # Base(d) + 2 * q + 1 BY <2>1, <1>3, <1>10, <1>15
  <2> QED BY <2>2, <1>7 DEF FrameInv, Types
<1> QED BY <1>1, <1>2, <1>4, <1>9, <1>12, <1>14, <1>15, StepKeeps DEF StorePair

LEMMA MoveSpKeeps == FrameInv /\ MoveSp => FrameInv'
<1> SUFFICES ASSUME FrameInv, MoveSp PROVE FrameInv' OBVIOUS
<1>1. PICK d \in Frame : /\ d = depth /\ d \in 1..depth /\ pc[d] = "move"
                         /\ Placed(d) /\ Kept(d) /\ Sp(d) = sp /\ X(d) = x
      BY Running DEF MoveSp
<1>2. /\ pc'[d] = "link" /\ depth' = d /\ \A l \in 1..(d - 1) : pc'[l] = pc[l]
      /\ Sp(d)' = sp' /\ X(d)' = x' /\ Base(d)' = Base(d) /\ pc' \in [Frame -> Place]
      BY <1>1, Moves DEF MoveSp, Place
<1>3. sp = Base(d) /\ x = taken[d].x /\ sp \in Int
      BY <1>1 DEF Placed, OnFrame, Kept, FrameInv, Types
<1>4. x' = [x EXCEPT ![9] = <<"sp", sp>>] /\ x' \in [Reg -> Value]
      /\ x'[9] = <<"sp", sp>> /\ x'[30] = x[30]
      BY <1>3 DEF MoveSp, FrameInv, Types, Reg, Value
<1>5. Types' BY <1>2, <1>4 DEF FrameInv, Types, MoveSp
<1>6. Placed(d)' BY <1>1, <1>2 DEF Placed, Base, OnFrame, MoveSp, Floor
<1>7. Kept(d)'
  <2>1. SavedTo(d, 30)' BY <1>1, <1>2 DEF Kept, SavedTo, MoveSp
  <2> QED BY <2>1, <1>1, <1>2, <1>3, <1>4 DEF Kept, MoveSp
<1> QED BY <1>1, <1>2, <1>5, <1>6, <1>7, StepKeeps DEF MoveSp

LEMMA StoreLinkKeeps == FrameInv /\ StoreLink => FrameInv'
<1> SUFFICES ASSUME FrameInv, StoreLink PROVE FrameInv' OBVIOUS
<1>1. PICK d \in Frame : /\ d = depth /\ d \in 1..depth /\ pc[d] = "link"
                         /\ Placed(d) /\ Kept(d) /\ Sp(d) = sp /\ X(d) = x
      BY Running DEF StoreLink
<1>2. /\ pc'[d] = "call" /\ depth' = d /\ \A l \in 1..(d - 1) : pc'[l] = pc[l]
      /\ Sp(d)' = sp' /\ X(d)' = x' /\ Base(d)' = Base(d) /\ pc' \in [Frame -> Place]
      BY <1>1, Moves DEF StoreLink, Place
<1>3. /\ sp = Base(d) /\ Base(d) \in Int /\ taken[d].sp = Base(d) + 32
      /\ x[30] = taken[d].x[30] /\ x[9] = <<"sp", Base(d)>>
      BY <1>1, Bounded DEF Placed, OnFrame, Kept
<1>4. /\ mem' = [mem EXCEPT ![Base(d) + 30] = x[30], ![Base(d) + 31] = x[9]]
      /\ Base(d) + 30 \in Address /\ Base(d) + 31 \in Address
      /\ x[30] \in Value /\ x[9] \in Value
  <2>1. mem' = [mem EXCEPT ![Base(d) + 30] = x[30], ![Base(d) + 31] = x[9]]
        BY <1>3 DEF StoreLink
  <2>2. 30 \in 0..31 /\ 31 \in 0..31 OBVIOUS
  <2>3. Base(d) + 30 \in Address /\ Base(d) + 31 \in Address BY <2>2, <1>1, Bounded
  <2>4. x[30] \in Value /\ x[9] \in Value BY DEF FrameInv, Types, Reg
  <2> QED BY <2>1, <2>3, <2>4
<1>5. Types' BY <1>2, <1>4 DEF FrameInv, Types, StoreLink
<1>6. Placed(d)' BY <1>1, <1>2 DEF Placed, Base, OnFrame, StoreLink, Floor
<1>7. Linked(d)'
  <2>1. ASSUME NEW n \in Reg PROVE mem'[Base(d) + n] = taken[d].x[n]
    <3>1. n \in Int /\ n \in 0..31 BY DEF Reg
    <3>2. Base(d) + n \in Address BY <3>1, <1>1, Bounded
    <3>3. CASE n = 30
      <4>1. Base(d) + 30 # Base(d) + 31 BY <1>3
      <4> QED BY <4>1, <3>3, <1>3, <1>4 DEF FrameInv, Types
    <3>4. CASE n # 30
      <4>1. n < 30 BY <3>4 DEF Reg
      <4>2. mem[Base(d) + n] = taken[d].x[n] BY <4>1, <1>1 DEF Kept, SavedTo
      <4>3. Base(d) + n # Base(d) + 30 /\ Base(d) + n # Base(d) + 31
            BY <3>1, <4>1, <1>3
      <4> QED BY <4>2, <4>3, <3>2, <1>4 DEF FrameInv, Types
    <3> QED BY <3>3, <3>4
  <2>2. mem'[Base(d) + 31] = <<"sp", Base(d)>> BY <1>3, <1>4 DEF FrameInv, Types
  <2> QED BY <2>1, <2>2, <1>2 DEF Linked, SavedTo, StoreLink
<1>8. Kept(d)' BY <1>2, <1>7 DEF Kept
<1>9. ASSUME NEW a \in Address, a >= taken[d].sp PROVE mem'[a] = mem[a]
  <2>1. a \in Int BY DEF Address
  <2>2. a # Base(d) + 30 /\ a # Base(d) + 31 BY <2>1, <1>3, <1>9
  <2> QED BY <2>2, <1>4 DEF FrameInv, Types
<1> QED BY <1>1, <1>2, <1>5, <1>6, <1>8, <1>9, StepKeeps DEF StoreLink

LEMMA CallKeeps == FrameInv /\ Call => FrameInv'
<1> SUFFICES ASSUME FrameInv, Call PROVE FrameInv' OBVIOUS
<1>1. PICK d \in Frame : /\ d = depth /\ d \in 1..depth /\ pc[d] = "call"
                         /\ Placed(d) /\ Kept(d) /\ Sp(d) = sp /\ X(d) = x
      BY Running DEF Call
<1>2. /\ pc'[d] = "c_begin" /\ depth' = d /\ \A l \in 1..(d - 1) : pc'[l] = pc[l]
      /\ Sp(d)' = sp' /\ X(d)' = x' /\ Base(d)' = Base(d) /\ pc' \in [Frame -> Place]
      BY <1>1, Moves DEF Call, Place
<1>3. d \in Int /\ sp \in Int BY FrameAssumption DEF Frame, FrameInv, Types
<1>4. x' \in [Reg -> Value]
  <2>1. <<"sp", sp>> \in Value /\ <<"kind", 0>> \in Value /\ <<"return", d>> \in Value
        BY <1>3 DEF Value
  <2>2. x' = [x EXCEPT ![0] = <<"sp", sp>>, ![1] = <<"kind", 0>>, ![30] = <<"return", d>>]
        BY <1>1 DEF Call
  <2>3. x \in [Reg -> Value] BY DEF FrameInv, Types
  <2> QED BY <2>1, <2>2, <2>3
<1>5. Types' BY <1>2, <1>4 DEF FrameInv, Types, Call
<1>6. Placed(d)' BY <1>1, <1>2 DEF Placed, Base, OnFrame, Call, Floor
<1>7. Kept(d)' BY <1>1, <1>2 DEF Kept, Linked, SavedTo, Call
<1> QED BY <1>1, <1>2, <1>5, <1>6, <1>7, StepKeeps DEF Call

LEMMA HandlerWorksKeeps == FrameInv /\ HandlerWorks => FrameInv'
<1> SUFFICES ASSUME FrameInv, HandlerWorks PROVE FrameInv' OBVIOUS
<1>1. PICK d \in Frame : /\ d = depth /\ d \in 1..depth /\ pc[d] = "c_begin"
                         /\ Placed(d) /\ Kept(d) /\ Sp(d) = sp /\ X(d) = x
      BY Running DEF HandlerWorks
<1>2. /\ pc'[d] = "c_end" /\ depth' = d /\ \A l \in 1..(d - 1) : pc'[l] = pc[l]
      /\ Sp(d)' = sp' /\ X(d)' = x' /\ Base(d)' = Base(d) /\ pc' \in [Frame -> Place]
      BY <1>1, Moves DEF HandlerWorks, Place
<1>3. /\ sp = Base(d) /\ Base(d) \in Int /\ taken[d].sp = Base(d) + 32
      /\ CWords \in Nat /\ sp' = Base(d) - CWords /\ d \in Int
      BY <1>1, Bounded, FrameAssumption DEF Placed, OnFrame, HandlerWorks, Frame
<1>4. Spoilt \in Value BY <1>1, <1>3 DEF Spoilt, Value
<1>5. Types'
  <2>1. x' \in [Reg -> Value] BY <1>4 DEF HandlerWorks
  <2>2. mem' \in [Address -> Value] BY <1>4 DEF HandlerWorks, FrameInv, Types
  <2>3. [n \in CalleeSaved |-> x[n]] \in [CalleeSaved -> Value]
        BY DEF FrameInv, Types, Reg, CalleeSaved
  <2>4. kept' \in [Frame -> [CalleeSaved -> Value]]
        BY <2>3 DEF HandlerWorks, FrameInv, Types
  <2>5. sp' \in Int BY <1>3
  <2> QED BY <1>2, <2>1, <2>2, <2>4, <2>5 DEF FrameInv, Types, HandlerWorks
<1>6. Placed(d)' BY <1>1, <1>2, <1>3 DEF Placed, Base, OnFrame, HandlerWorks, Floor
<1>7. ASSUME NEW a \in Address, a >= Base(d) PROVE mem'[a] = mem[a]
  <2>1. a \in Int BY DEF Address
  <2>2. a \notin sp'..(sp - 1) BY <2>1, <1>3, <1>7
  <2> QED BY <2>2 DEF HandlerWorks
<1>8. Kept(d)'
  <2>1. ASSUME NEW n \in 0..31 PROVE mem'[Base(d) + n] = mem[Base(d) + n]
    <3>1. Base(d) + n \in Address BY <1>1, Bounded
    <3>2. Base(d) + n >= Base(d) BY <1>3
    <3> QED BY <3>1, <3>2, <1>7
  <2>2. Linked(d) BY <1>1 DEF Kept
  <2>3. Linked(d)' BY <2>1, <2>2, <1>2 DEF Linked, SavedTo, HandlerWorks, Reg
  <2> QED BY <2>3, <1>2 DEF Kept
<1>9. ASSUME NEW a \in Address, a >= taken[d].sp PROVE mem'[a] = mem[a]
  <2>1. a \in Int BY DEF Address
  <2> QED BY <2>1, <1>3, <1>7, <1>9
<1> QED BY <1>1, <1>2, <1>5, <1>6, <1>8, <1>9, StepKeeps DEF HandlerWorks

LEMMA HandlerReturnsKeeps == FrameInv /\ HandlerReturns => FrameInv'
<1> SUFFICES ASSUME FrameInv, HandlerReturns PROVE FrameInv' OBVIOUS
<1>1. PICK d \in Frame : /\ d = depth /\ d \in 1..depth /\ pc[d] = "c_end"
                         /\ Placed(d) /\ Kept(d) /\ Sp(d) = sp /\ X(d) = x
      BY Running DEF HandlerReturns
<1>2. /\ pc'[d] = "branch" /\ depth' = d /\ \A l \in 1..(d - 1) : pc'[l] = pc[l]
      /\ Sp(d)' = sp' /\ X(d)' = x' /\ Base(d)' = Base(d) /\ pc' \in [Frame -> Place]
      BY <1>1, Moves DEF HandlerReturns, Place
<1>3. /\ sp = Base(d) - CWords /\ Base(d) \in Int /\ CWords \in Nat /\ sp' = Base(d)
      /\ d \in Int
      BY <1>1, Bounded, FrameAssumption DEF Placed, OnFrame, HandlerReturns, Frame
<1>4. x' \in [Reg -> Value]
  <2>1. Spoilt \in Value BY <1>1, <1>3 DEF Spoilt, Value
  <2>2. PICK action \in Int :
           x' = [n \in Reg |-> IF n = 0 THEN <<"action", action>>
                               ELSE IF n \in CalleeSaved THEN kept[depth][n]
                               ELSE Spoilt]
        BY <1>1, <1>3 DEF HandlerReturns
  <2>3. <<"action", action>> \in Value BY DEF Value
  <2>4. \A n \in CalleeSaved : kept[depth][n] \in Value BY <1>1 DEF FrameInv, Types
  <2> QED BY <2>1, <2>2, <2>3, <2>4
<1>5. Types' BY <1>2, <1>3, <1>4 DEF FrameInv, Types, HandlerReturns
<1>6. Placed(d)' BY <1>1, <1>2, <1>3 DEF Placed, Base, OnFrame, HandlerReturns, Floor
<1>7. Kept(d)' BY <1>1, <1>2 DEF Kept, Linked, SavedTo, HandlerReturns
<1> QED BY <1>1, <1>2, <1>5, <1>6, <1>7, StepKeeps DEF HandlerReturns

LEMMA HandlerHaltsKeeps == FrameInv /\ HandlerHalts => FrameInv'
<1> SUFFICES ASSUME FrameInv, HandlerHalts PROVE FrameInv' OBVIOUS
<1>1. PICK d \in Frame : /\ d = depth /\ d \in 1..depth /\ pc[d] = "c_end"
                         /\ Placed(d) /\ Kept(d) /\ Sp(d) = sp /\ X(d) = x
      BY Running DEF HandlerHalts
<1>2. /\ pc'[d] = "halt" /\ depth' = d /\ \A l \in 1..(d - 1) : pc'[l] = pc[l]
      /\ Sp(d)' = sp' /\ X(d)' = x' /\ Base(d)' = Base(d) /\ pc' \in [Frame -> Place]
      BY <1>1, Moves DEF HandlerHalts, Place
<1>5. Types' BY <1>2 DEF FrameInv, Types, HandlerHalts
<1>6. Placed(d)' BY <1>1, <1>2 DEF Placed, Base, OnFrame, HandlerHalts, Floor
<1>7. Kept(d)' BY <1>1, <1>2 DEF Kept
<1> QED BY <1>1, <1>2, <1>5, <1>6, <1>7, StepKeeps DEF HandlerHalts

LEMMA RebootKeeps == FrameInv /\ Reboot => FrameInv'
<1> SUFFICES ASSUME FrameInv, Reboot PROVE FrameInv' OBVIOUS
<1>1. PICK d \in Frame : /\ d = depth /\ d \in 1..depth /\ pc[d] = "reboot"
                         /\ Placed(d) /\ Kept(d) /\ Sp(d) = sp /\ X(d) = x
      BY Running DEF Reboot
<1>2. /\ pc'[d] = "halt" /\ depth' = d /\ \A l \in 1..(d - 1) : pc'[l] = pc[l]
      /\ Sp(d)' = sp' /\ X(d)' = x' /\ Base(d)' = Base(d) /\ pc' \in [Frame -> Place]
      BY <1>1, Moves DEF Reboot, Place
<1>5. Types' BY <1>2 DEF FrameInv, Types, Reboot
<1>6. Placed(d)' BY <1>1, <1>2 DEF Placed, Base, OnFrame, Reboot, Floor
<1>7. Kept(d)' BY <1>1, <1>2 DEF Kept
<1> QED BY <1>1, <1>2, <1>5, <1>6, <1>7, StepKeeps DEF Reboot

LEMMA BranchKeeps == FrameInv /\ Branch => FrameInv'
<1> SUFFICES ASSUME FrameInv, Branch PROVE FrameInv' OBVIOUS
<1>1. PICK d \in Frame : /\ d = depth /\ d \in 1..depth /\ pc[d] = "branch"
                         /\ Placed(d) /\ Kept(d) /\ Sp(d) = sp /\ X(d) = x
      BY Running DEF Branch
<1> DEFINE next == CASE x[0] = <<"action", 0>> -> "load"
                    [] x[0] = <<"action", 1>> -> "reboot"
                    [] OTHER -> "halt"
<1>a. next \in {"load", "reboot", "halt"} OBVIOUS
<1> HIDE DEF next
<1>2. /\ pc'[d] = next /\ depth' = d /\ \A l \in 1..(d - 1) : pc'[l] = pc[l]
      /\ Sp(d)' = sp' /\ X(d)' = x' /\ Base(d)' = Base(d) /\ pc' \in [Frame -> Place]
      BY <1>1, <1>a, Moves DEF Branch, Place, next
<1>3. /\ pair'[d] = 0 /\ \A l \in 1..(d - 1) : pair'[l] = pair[l]
      /\ pair' \in [Frame -> 0..15]
      BY <1>1, Pairs DEF Branch
<1>5. Types' BY <1>2, <1>3 DEF FrameInv, Types, Branch
<1>6. Placed(d)' BY <1>1, <1>2, <1>a DEF Placed, Base, OnFrame, Branch, Floor
<1>7. Kept(d)'
  <2>1. Linked(d)' BY <1>1, <1>2 DEF Kept, Linked, SavedTo, Branch
  <2>2. LoadedTo(d, 2 * 0)' BY DEF LoadedTo, Reg
  <2> QED BY <2>1, <2>2, <1>2, <1>3, <1>a DEF Kept
<1> QED BY <1>1, <1>2, <1>3, <1>5, <1>6, <1>7, StepKeeps DEF Branch

LEMMA LoadPairKeeps == FrameInv /\ LoadPair => FrameInv'
<1> SUFFICES ASSUME FrameInv, LoadPair PROVE FrameInv' OBVIOUS
<1>1. PICK d \in Frame : /\ d = depth /\ d \in 1..depth /\ pc[d] = "load"
                         /\ Placed(d) /\ Kept(d) /\ Sp(d) = sp /\ X(d) = x
      BY Running DEF LoadPair
<1> DEFINE next == IF pair[d] = 14 THEN "load_link" ELSE "load"
<1>2. /\ pc'[d] = next /\ depth' = d /\ \A l \in 1..(d - 1) : pc'[l] = pc[l]
      /\ Sp(d)' = sp' /\ X(d)' = x' /\ Base(d)' = Base(d) /\ pc' \in [Frame -> Place]
      BY <1>1, Moves DEF LoadPair, Place
<1>3. PICK q \in 0..14 : q = pair[d] BY <1>1 DEF Kept
<1>4. /\ pair'[d] = q + 1 /\ \A l \in 1..(d - 1) : pair'[l] = pair[l]
      /\ pair' \in [Frame -> 0..15]
  <2>1. q + 1 \in 0..15 BY <1>3
  <2>2. pair' = [pair EXCEPT ![depth] = q + 1] BY <1>1, <1>3 DEF LoadPair
  <2> QED BY <1>1, <2>1, <2>2, Pairs
<1>5. sp = Base(d) /\ Linked(d) /\ Base(d) \in Int
      BY <1>1, Bounded DEF Placed, OnFrame, Kept
<1>6. /\ 2 * q \in Reg /\ 2 * q + 1 \in Reg /\ 2 * q # 2 * q + 1
      /\ Base(d) + 2 * q + 1 = Base(d) + (2 * q + 1)
      BY <1>3, <1>5 DEF Reg
<1>7. x' = [x EXCEPT ![2 * q] = taken[d].x[2 * q], ![2 * q + 1] = taken[d].x[2 * q + 1]]
  <2>1. /\ mem[Base(d) + 2 * q] = taken[d].x[2 * q]
        /\ mem[Base(d) + 2 * q + 1] = taken[d].x[2 * q + 1]
        BY <1>5, <1>6 DEF Linked, SavedTo, Reg
  <2> QED BY <2>1, <1>1, <1>3, <1>5 DEF LoadPair, LoadOffset
<1>8. x' \in [Reg -> Value]
  <2>1. taken[d].x \in [Reg -> Value] BY <1>1, Bounded
  <2> QED BY <2>1, <1>6, <1>7 DEF FrameInv, Types
<1>9. Types' BY <1>2, <1>4, <1>8 DEF FrameInv, Types, LoadPair
<1>10. Placed(d)' BY <1>1, <1>2 DEF Placed, Base, OnFrame, LoadPair, Floor
<1>11. LoadedTo(d, 2 * (q + 1))'
  <2>1. ASSUME NEW n \in Reg, n < 2 * (q + 1) PROVE x'[n] = taken[d].x[n]
    <3>1. n \in Int BY DEF Reg
    <3>2. CASE n < 2 * q
      <4>1. x[n] = taken[d].x[n] BY <3>2, <1>1, <1>3 DEF Kept, LoadedTo
      <4>2. n # 2 * q /\ n # 2 * q + 1 BY <3>1, <3>2, <1>3
      <4>3. x'[n] = x[n] BY <4>2, <1>7 DEF FrameInv, Types
      <4> QED BY <4>1, <4>3
    <3>3. CASE n = 2 * q \/ n = 2 * q + 1 BY <3>3, <1>6, <1>7 DEF FrameInv, Types
    <3>4. n < 2 * q \/ n = 2 * q \/ n = 2 * q + 1
      <4>1. n < 2 * q + 2 BY <2>1, <3>1
      <4> QED BY <4>1, <3>1
    <3> QED BY <3>2, <3>3, <3>4
  <2> QED BY <2>1, <1>2 DEF LoadedTo, LoadPair
<1>12. Linked(d)' BY <1>5, <1>2 DEF Linked, SavedTo, LoadPair
<1>13. Kept(d)'
  <2>1. CASE q = 14 BY <2>1, <1>2, <1>3, <1>11, <1>12 DEF Kept
  <2>2. CASE q # 14 BY <2>2, <1>2, <1>3, <1>4, <1>11, <1>12 DEF Kept
  <2> QED BY <2>1, <2>2
<1> QED BY <1>1, <1>2, <1>4, <1>9, <1>10, <1>13, StepKeeps DEF LoadPair

LEMMA LoadLinkKeeps == FrameInv /\ LoadLink => FrameInv'
<1> SUFFICES ASSUME FrameInv, LoadLink PROVE FrameInv' OBVIOUS
<1>1. PICK d \in Frame : /\ d = depth /\ d \in 1..depth /\ pc[d] = "load_link"
                         /\ Placed(d) /\ Kept(d) /\ Sp(d) = sp /\ X(d) = x
      BY Running DEF LoadLink
<1>2. /\ pc'[d] = "release" /\ depth' = d /\ \A l \in 1..(d - 1) : pc'[l] = pc[l]
      /\ Sp(d)' = sp' /\ X(d)' = x' /\ Base(d)' = Base(d) /\ pc' \in [Frame -> Place]
      BY <1>1, Moves DEF LoadLink, Place
<1>3. mem[sp + 30] = taken[d].x[30] /\ LoadedTo(d, 30)
      BY <1>1 DEF Placed, OnFrame, Kept, Linked, SavedTo, Reg
<1>4. x' = [x EXCEPT ![30] = taken[d].x[30]] /\ x' \in [Reg -> Value]
  <2>1. taken[d].x[30] \in Value BY <1>1, Bounded DEF Reg
  <2> QED BY <2>1, <1>3 DEF LoadLink, FrameInv, Types
<1>5. Types' BY <1>2, <1>4 DEF FrameInv, Types, LoadLink
<1>6. Placed(d)' BY <1>1, <1>2 DEF Placed, Base, OnFrame, LoadLink, Floor
<1>7. Kept(d)'
  <2>1. LoadedTo(d, 31)'
    <3>1. ASSUME NEW n \in Reg PROVE x'[n] = taken[d].x[n]
      <4>1. n \in Int /\ (n < 30 \/ n = 30) BY DEF Reg
      <4> QED BY <4>1, <1>1, <1>3, <1>4 DEF LoadedTo, FrameInv, Types
    <3> QED BY <3>1, <1>2 DEF LoadedTo, LoadLink
  <2> QED BY <2>1, <1>2 DEF Kept
<1> QED BY <1>1, <1>2, <1>5, <1>6, <1>7, StepKeeps DEF LoadLink

LEMMA ReleaseKeeps == FrameInv /\ Release => FrameInv'
<1> SUFFICES ASSUME FrameInv, Release PROVE FrameInv' OBVIOUS
<1>1. PICK d \in Frame : /\ d = depth /\ d \in 1..depth /\ pc[d] = "release"
                         /\ Placed(d) /\ Kept(d) /\ Sp(d) = sp /\ X(d) = x
      BY Running DEF Release
<1>2. /\ pc'[d] = "eret" /\ depth' = d /\ \A l \in 1..(d - 1) : pc'[l] = pc[l]
      /\ Sp(d)' = sp' /\ X(d)' = x' /\ Base(d)' = Base(d) /\ pc' \in [Frame -> Place]
      BY <1>1, Moves DEF Release, Place
<1>3. sp' = taken[d].sp /\ sp' \in Int
      BY <1>1, Bounded DEF Placed, OnFrame, Base, Release, FrameWords
<1>5. Types' BY <1>2, <1>3 DEF FrameInv, Types, Release
<1>6. Placed(d)' BY <1>1, <1>2, <1>3 DEF Placed, Base, OnFrame, Release, Floor
<1>7. Kept(d)' BY <1>1, <1>2 DEF Kept, LoadedTo, Release
<1> QED BY <1>1, <1>2, <1>5, <1>6, <1>7, StepKeeps DEF Release

LEMMA EretKeeps == FrameInv /\ Eret => FrameInv'
<1> SUFFICES ASSUME FrameInv, Eret PROVE FrameInv' OBVIOUS
<1>1. PICK d \in Frame : /\ d = depth /\ d \in 1..depth /\ pc[d] = "eret"
                         /\ Placed(d) /\ Kept(d) /\ Sp(d) = sp /\ X(d) = x
      BY Running DEF Eret
<1>2. /\ d \in Nat /\ d >= 1 /\ depth' = d - 1
      /\ UNCHANGED <<x, sp, mem, pair, kept, taken>>
      BY <1>1 DEF Eret, Frame
<1>3. sp = taken[d].sp /\ x = taken[d].x
  <2>1. sp = taken[d].sp BY <1>1 DEF Placed
  <2>2. ASSUME NEW n \in Reg PROVE x[n] = taken[d].x[n]
    <3>1. n < 31 BY DEF Reg
    <3> QED BY <3>1, <1>1 DEF Kept, LoadedTo
  <2>3. taken[d].x \in [Reg -> Value] BY <1>1, Bounded
  <2> QED BY <2>1, <2>2, <2>3 DEF FrameInv, Types
<1>4. Types'
  <2>1. pc' \in [Frame -> Place] BY DEF Eret, Goto, FrameInv, Types, Place
  <2>2. depth' \in 0..MaxDepth BY <1>1, <1>2, FrameAssumption DEF FrameInv, Types
  <2> QED BY <1>2, <2>1, <2>2 DEF FrameInv, Types
<1>5. ASSUME NEW l \in 1..(d - 1)
      PROVE  /\ l \in 1..depth /\ pc'[l] = pc[l] /\ Base(l)' = Base(l)
             /\ Sp(l)' = Sp(l) /\ X(l)' = X(l)
  <2>1. l \in 1..depth /\ l \in Frame /\ l # d
        BY <1>1, <1>2, FrameAssumption DEF Frame
  <2>2. pc'[l] = pc[l] BY <1>1, <2>1 DEF Eret, Goto, FrameInv, Types
  <2>3. CASE l = d - 1
    <3>1. l = depth' /\ l # depth /\ l + 1 = d BY <2>3, <1>1, <1>2
    <3> QED BY <2>1, <2>2, <3>1, <1>2, <1>3 DEF Sp, X, Base
  <2>4. CASE l # d - 1
    <3>1. l # depth' /\ l # depth BY <2>4, <2>1, <1>1, <1>2
    <3> QED BY <2>1, <2>2, <3>1, <1>2 DEF Sp, X, Base
  <2> QED BY <2>3, <2>4
<1>6. ASSUME NEW l \in 1..(d - 1) PROVE Placed(l)' /\ Kept(l)'
  <2>1. Placed(l) /\ Kept(l) BY <1>5 DEF FrameInv
  <2>2. Placed(l)' BY <2>1, <1>2, <1>5 DEF Placed
  <2>3. /\ \A m : SavedTo(l, m)' <=> SavedTo(l, m)
        /\ \A m : LoadedTo(l, m)' <=> LoadedTo(l, m)
        /\ Linked(l)' <=> Linked(l)
        BY <1>2, <1>5 DEF SavedTo, LoadedTo, Linked
  <2>4. Kept(l)' BY <2>1, <2>3, <1>2, <1>5 DEF Kept
  <2> QED BY <2>2, <2>4
<1>7. Stacked'
  <2>1. ASSUME NEW l \in 1..(d - 1), NEW m \in 1..(d - 1), l < m
        PROVE  taken'[m].sp <= Limit(l)'
    <3>1. Limit(l)' = Limit(l) /\ l \in 1..depth /\ m \in 1..depth
          BY <1>2, <1>5 DEF Limit
    <3> QED BY <2>1, <3>1, <1>2 DEF FrameInv, Stacked
  <2> QED BY <2>1, <1>2 DEF Stacked
<1>8. Bottom'
  <2>1. taken[1].sp = Top BY <1>1, <1>2 DEF FrameInv, Bottom
  <2>2. depth' = 0 => sp' = Top
    <3>1. ASSUME depth' = 0 PROVE d = 1 BY <3>1, <1>2
    <3> QED BY <3>1, <2>1, <1>2, <1>3
  <2> QED BY <2>1, <2>2, <1>2 DEF Bottom
<1>9. ThreadStack' BY <1>2 DEF FrameInv, ThreadStack
<1>10. \A l \in 1..depth' : Placed(l)' /\ Kept(l)' BY <1>2, <1>6
<1> QED BY <1>4, <1>7, <1>8, <1>9, <1>10 DEF FrameInv

-----------------------------------------------------------------------------
\* Every step of a stub, of the C code or of an exception keeps the invariant.
LEMMA NextKeeps == FrameInv /\ [Next]_vars => FrameInv'
<1> SUFFICES ASSUME FrameInv, [Next]_vars PROVE FrameInv' OBVIOUS
<1>1. CASE UNCHANGED vars
  <2>1. \A l : /\ Sp(l)' = Sp(l) /\ X(l)' = X(l) /\ Base(l)' = Base(l)
               /\ Limit(l)' = Limit(l)
        BY <1>1 DEF vars, Sp, X, Base, Limit
  <2>2. \A l, m : /\ SavedTo(l, m)' <=> SavedTo(l, m)
                  /\ LoadedTo(l, m)' <=> LoadedTo(l, m)
        BY <1>1, <2>1 DEF vars, SavedTo, LoadedTo
  <2>3. \A l : Linked(l)' <=> Linked(l) BY <1>1, <2>1, <2>2 DEF vars, Linked
  <2>4. ASSUME NEW l \in 1..depth PROVE Placed(l)' /\ Kept(l)'
    <3>1. Placed(l) /\ Kept(l) BY DEF FrameInv
    <3>2. Placed(l)' BY <3>1, <1>1, <2>1 DEF vars, Placed
    <3>3. Kept(l)' BY <3>1, <1>1, <2>1, <2>2, <2>3 DEF vars, Kept
    <3> QED BY <3>2, <3>3
  <2>5. Types' /\ Bottom' /\ ThreadStack'
        BY <1>1 DEF vars, FrameInv, Types, Bottom, ThreadStack
  <2>6. Stacked' BY <1>1, <2>1 DEF vars, FrameInv, Stacked
  <2> QED BY <1>1, <2>4, <2>5, <2>6 DEF vars, FrameInv
<1>2. CASE Next
  <2>1. CASE Take BY <2>1, TakeKeeps
  <2>2. CASE MakeRoom BY <2>2, MakeRoomKeeps
  <2>3. CASE StorePair BY <2>3, StorePairKeeps
  <2>4. CASE MoveSp BY <2>4, MoveSpKeeps
  <2>5. CASE StoreLink BY <2>5, StoreLinkKeeps
  <2>6. CASE Call BY <2>6, CallKeeps
  <2>7. CASE HandlerWorks BY <2>7, HandlerWorksKeeps
  <2>8. CASE HandlerReturns BY <2>8, HandlerReturnsKeeps
  <2>9. CASE HandlerHalts BY <2>9, HandlerHaltsKeeps
  <2>10. CASE Branch BY <2>10, BranchKeeps
  <2>11. CASE Reboot BY <2>11, RebootKeeps
  <2>12. CASE LoadPair BY <2>12, LoadPairKeeps
  <2>13. CASE LoadLink BY <2>13, LoadLinkKeeps
  <2>14. CASE Release BY <2>14, ReleaseKeeps
  <2>15. CASE Eret BY <2>15, EretKeeps
  <2> QED BY <1>2, <2>1, <2>2, <2>3, <2>4, <2>5, <2>6, <2>7, <2>8, <2>9, <2>10, <2>11,
             <2>12, <2>13, <2>14, <2>15 DEF Next
<1> QED BY <1>1, <1>2

\* The invariant holds of every behaviour of the stub.
THEOREM Invariant == Spec => []FrameInv
<1>1. Init => FrameInv BY Initially
<1>2. FrameInv /\ [Next]_vars => FrameInv' BY NextKeeps
<1> QED BY <1>1, <1>2, PTL DEF Spec

\* Whatever the depth of nesting and the size of the C frames, saved_registers of
\* ExceptionHandler.c is what the registers were when the exception was taken.
THEOREM RegistersFaithful == Spec => []FrameFaithful
<1>1. FrameInv => FrameFaithful
  <2> SUFFICES ASSUME FrameInv, NEW l \in 1..depth, pc[l] \in {"c_begin", "c_end"}
               PROVE  /\ \A n \in Reg : mem[taken[l].sp - 32 + n] = taken[l].x[n]
                      /\ mem[taken[l].sp - 32 + 31] = <<"sp", taken[l].sp - 32>>
      BY DEF FrameFaithful
  <2>1. Linked(l) BY DEF FrameInv, Kept
  <2>2. \A n \in Reg : n < 31 BY DEF Reg
  <2> QED BY <2>1, <2>2 DEF Linked, SavedTo, Base
<1> QED BY <1>1, Invariant, PTL

\* Whatever interrupts what, code that is returned to finds its registers, its
\* stack pointer and its stack as it left them.
THEOREM CodeResumesIntact == Spec => []ResumedIntact
<1>1. FrameInv => ResumedIntact
  <2> SUFFICES ASSUME FrameInv, At("eret")
               PROVE  /\ x = taken[depth].x /\ sp = taken[depth].sp
                      /\ \A a \in Top..(Top + Used) : mem[a] = <<"stack", a>>
      BY DEF ResumedIntact
  <2>1. PICK d \in Frame : /\ d = depth /\ d \in 1..depth /\ pc[d] = "eret"
                           /\ Placed(d) /\ Kept(d) /\ Sp(d) = sp /\ X(d) = x
        BY Running
  <2>2. sp = taken[depth].sp BY <2>1 DEF Placed
  <2>3. ASSUME NEW n \in Reg PROVE x[n] = taken[d].x[n]
    <3>1. n < 31 BY DEF Reg
    <3> QED BY <3>1, <2>1 DEF Kept, LoadedTo
  <2>4. x = taken[depth].x
    <3>1. taken[d].x \in [Reg -> Value] BY <2>1, Bounded
    <3> QED BY <3>1, <2>1, <2>3 DEF FrameInv, Types
  <2>5. ASSUME NEW a \in Top..(Top + Used) PROVE mem[a] = <<"stack", a>>
    <3>1. a \in Address /\ a >= Top BY FloorSteps, FrameAssumption DEF Address
    <3> QED BY <3>1 DEF FrameInv, ThreadStack
  <2> QED BY <2>2, <2>4, <2>5
<1> QED BY <1>1, Invariant, PTL
=============================================================================
