--------------------------- MODULE DeviceTree_proof ---------------------------
(***************************************************************************)
(* For every blob: every header, every token, name and property length and *)
(* every alignment, the parser stays within the bounds it checked; and if  *)
(* the blob keeps to the format, the regions are those it declares.        *)
(***************************************************************************)
EXTENDS DeviceTree, SequenceTheorems, TLAPS

HeaderField == {"total_size", "off_mem_rsvmap", "off_dt_struct",
                "size_dt_struct", "off_dt_strings", "size_dt_strings"}

\* The reason of a panic tells where it came from, and a header that was accepted
\* bounds what is read after it.
TreeInv ==
    /\ header \in Headers
    /\ reserved_regions_count \in Nat
    /\ dtb_cursor \in Nat
    /\ dtb_cursor <= StructEnd
    /\ pc = "panicked" \/ why = NULL
    /\ pc # "header" /\ why # "header" =>
          HeaderAccepted /\ read_end <= header.total_size

\* What every step that is taken in the loop may rely on.
LEMMA HeaderTypes ==
    ASSUME NEW h \in Headers
    PROVE  /\ h.magic_ok \in BOOLEAN
           /\ h.skew \in Nat
           /\ h.total_size \in Nat /\ h.off_mem_rsvmap \in Nat
           /\ h.off_dt_struct \in Nat /\ h.size_dt_struct \in Nat
           /\ h.off_dt_strings \in Nat /\ h.size_dt_strings \in Nat
<1>1. h.skew \in 0..3 /\ h.magic_ok \in BOOLEAN
  BY HeaderAssumption
<1>2. \A f \in HeaderField : h[f] \in Nat
  BY HeaderAssumption DEF HeaderField
<1>3. QED
  BY <1>1, <1>2 DEF HeaderField

\* Alignment moves the cursor forward, by less than a word.
LEMMA AlignForward ==
    ASSUME header.skew \in Nat, NEW offset \in Nat
    PROVE  /\ AlignUp(offset) \in Nat
           /\ offset <= AlignUp(offset)
           /\ AlignUp(offset) <= offset + 3
<1>1. \A r \in 0..3 : (4 - r) % 4 \in 0..3
  OBVIOUS
<1>2. (header.skew + offset) % 4 \in 0..3
  OBVIOUS
<1>3. PICK pad \in 0..3 : pad = (4 - ((header.skew + offset) % 4)) % 4
  BY <1>1, <1>2
<1>4. AlignUp(offset) = offset + pad
  BY <1>3 DEF AlignUp
<1>5. QED
  BY <1>4

LEMMA TreeInit == Init => TreeInv
<1> SUFFICES ASSUME Init PROVE TreeInv
  OBVIOUS
<1>1. header \in Headers
  BY DEF Init
<1>2. header.size_dt_struct \in Nat
  BY <1>1, HeaderTypes
<1>3. QED
  BY <1>1, <1>2 DEF Init, TreeInv, StructEnd, NULL

\* A step in the loop keeps the invariant if the cursor and the read stay within
\* the block, for the block lies within the blob.
LEMMA WalkKeeps ==
    ASSUME TreeInv, pc = "walk", header' = header,
           reserved_regions_count' = reserved_regions_count,
           NEW offset \in Nat, offset <= StructEnd, ReadUpTo(offset),
           dtb_cursor' \in Nat, dtb_cursor' <= StructEnd,
           \/ pc' = "walk" /\ why' = why
           \/ pc' = "panicked"
    PROVE  TreeInv'
<1>1. HeaderAccepted /\ why = NULL
  BY DEF TreeInv, NULL
<1>2. /\ header.total_size \in Nat /\ header.off_dt_struct \in Nat
      /\ header.size_dt_struct \in Nat
  BY HeaderTypes DEF TreeInv
<1>3. read_end' <= header.total_size
  BY <1>1, <1>2 DEF HeaderAccepted, StructEnd, ReadUpTo
<1>4. HeaderAccepted' /\ StructEnd' = StructEnd
  BY <1>1 DEF HeaderAccepted, StructEnd
<1>5. QED
  BY <1>1, <1>3, <1>4 DEF TreeInv, NULL

LEMMA TreeStep == TreeInv /\ [Next]_vars => TreeInv'
<1> SUFFICES ASSUME TreeInv, [Next]_vars PROVE TreeInv'
  OBVIOUS
<1>0. /\ header.magic_ok \in BOOLEAN /\ header.skew \in Nat
      /\ header.total_size \in Nat /\ header.off_mem_rsvmap \in Nat
      /\ header.off_dt_struct \in Nat /\ header.size_dt_struct \in Nat
      /\ dtb_cursor \in Nat /\ dtb_cursor <= StructEnd
      /\ StructEnd \in Nat /\ reserved_regions_count \in Nat
  BY HeaderTypes DEF TreeInv, StructEnd
<1>1. CASE ParseHeader
  <2>1. CASE HeaderAccepted
    <3>1. /\ pc' = "reserve" /\ read_end' = 40 /\ why' = why /\ header' = header
          /\ reserved_regions_count' = reserved_regions_count
          /\ dtb_cursor' = dtb_cursor
      BY <1>1, <2>1, <1>0 DEF ParseHeader, HeaderAccepted
    <3>2. HeaderAccepted' /\ StructEnd' = StructEnd
      BY <2>1, <3>1 DEF HeaderAccepted, StructEnd
    <3>3. read_end' <= header'.total_size
      BY <2>1, <3>1, <1>0 DEF HeaderAccepted
    <3>4. pc = "header"
      BY <1>1 DEF ParseHeader
    <3>5. QED
      BY <3>1, <3>2, <3>3, <3>4 DEF TreeInv, NULL
  <2>2. CASE ~HeaderAccepted
    BY <1>1, <2>2 DEF ParseHeader, Panic, TreeInv, StructEnd
  <2>3. QED
    BY <2>1, <2>2
<1>2. CASE Reserve
  <2>1. /\ pc = "reserve" /\ why = NULL /\ HeaderAccepted
        /\ read_end <= header.total_size
    BY <1>2 DEF Reserve, TreeInv, NULL
  <2>2. /\ header' = header /\ dtb_cursor' = dtb_cursor
        /\ reserved_regions_count' \in Nat
        /\ \/ pc' = "panicked"
           \/ pc' \in {"reserve", "walk"} /\ why' = why
    BY <1>2, <1>0 DEF Reserve, NextEntry, Panic
  <2>3. read_end' <= header.total_size
    BY <1>2, <2>1 DEF Reserve, InBlob
  <2>4. HeaderAccepted' /\ StructEnd' = StructEnd
    BY <2>1, <2>2 DEF HeaderAccepted, StructEnd
  <2>5. QED
    BY <2>1, <2>2, <2>3, <2>4 DEF TreeInv, NULL
<1>3. CASE BeginNode
  <2>1. PICK n \in NameLengths :
          IF Token + n >= StructEnd \/ AlignUp(Token + n + 1) > StructEnd
          THEN Panic("name") /\ ReadUpTo(StructEnd)
          ELSE ReadUpTo(Token + n + 1) /\ AdvanceTo(AlignUp(Token + n + 1))
    BY <1>3 DEF BeginNode
  <2>2. n \in Nat /\ Token \in Nat
    BY <1>0, TokenAssumption DEF Token
  <2>3. /\ AlignUp(Token + n + 1) \in Nat
        /\ Token + n + 1 <= AlignUp(Token + n + 1)
    BY <2>2, <1>0, AlignForward
  <2>4. pc = "walk"
    BY <1>3 DEF BeginNode, TokenRead
  <2>5. CASE Token + n >= StructEnd \/ AlignUp(Token + n + 1) > StructEnd
    BY <1>0, <2>1, <2>4, <2>5, WalkKeeps DEF Panic
  <2>6. CASE ~(Token + n >= StructEnd \/ AlignUp(Token + n + 1) > StructEnd)
    <3>1. /\ ReadUpTo(Token + n + 1)
          /\ AdvanceTo(AlignUp(Token + n + 1))
          /\ AlignUp(Token + n + 1) <= StructEnd
      BY <1>0, <2>1, <2>3, <2>6
    <3>2. Token + n + 1 <= StructEnd
      BY <1>0, <2>2, <2>3, <3>1
    <3>3. QED
      BY <1>0, <2>2, <2>3, <2>4, <3>1, <3>2, WalkKeeps DEF AdvanceTo
  <2>7. QED
    BY <2>5, <2>6
<1>4. CASE EndNode
  <2>1. /\ pc = "walk" /\ ReadUpTo(Token)
        /\ Panic("end node") \/ AdvanceTo(Token)
    BY <1>4 DEF EndNode, TokenRead
  <2>2. Token \in Nat /\ Token <= StructEnd
    <3>1. StructEnd - dtb_cursor >= 4
      BY <1>4 DEF EndNode, TokenRead
    <3>2. QED
      BY <1>0, <3>1 DEF Token
  <2>3. QED
    BY <1>0, <2>1, <2>2, WalkKeeps DEF Panic, AdvanceTo
<1>5. CASE PropertyToken
  <2>1. PICK p \in Properties :
          /\ ReadUpTo(IF PropertyFits(p) THEN Data + p.length
                      ELSE IF StructEnd - Token >= 8 THEN Data ELSE Token)
          /\ IF ~PropertyAccepted(p) THEN Panic("property")
             ELSE AdvanceTo(AlignUp(Data + p.length))
    BY <1>5 DEF PropertyToken
  <2>2. /\ pc = "walk" /\ p.length \in Nat
        /\ Token \in Nat /\ Token <= StructEnd
        /\ Data \in Nat
    BY <1>0, <1>5, TokenAssumption DEF PropertyToken, TokenRead, Token, Data
  <2>3. /\ AlignUp(Data + p.length) \in Nat
        /\ Data + p.length <= AlignUp(Data + p.length)
    BY <2>2, <1>0, AlignForward
  <2>4. PropertyFits(p) => /\ Data + p.length <= StructEnd
                           /\ AlignUp(Data + p.length) <= StructEnd
    BY <1>0, <2>2, <2>3 DEF PropertyFits
  <2>5. StructEnd - Token >= 8 => Data <= StructEnd
    BY <1>0, <2>2 DEF Data
  <2>6. PICK offset \in Nat : offset <= StructEnd /\ ReadUpTo(offset)
    BY <2>1, <2>2, <2>4, <2>5
  <2>7. CASE PropertyAccepted(p)
    BY <1>0, <2>1, <2>2, <2>3, <2>4, <2>6, <2>7, WalkKeeps
    DEF PropertyAccepted, AdvanceTo
  <2>8. CASE ~PropertyAccepted(p)
    BY <1>0, <2>1, <2>2, <2>6, <2>8, WalkKeeps DEF Panic
  <2>9. QED
    BY <2>7, <2>8
<1>6. CASE Nop
  BY <1>0, <1>6, WalkKeeps DEF Nop, TokenRead, Token, AdvanceTo
<1>7. CASE End
  BY <1>0, <1>7, WalkKeeps DEF End, TokenRead, Token, AdvanceTo
<1>8. CASE UnknownToken
  BY <1>0, <1>8, WalkKeeps DEF UnknownToken, TokenRead, Token, Panic
<1>9. CASE Finish
  BY <1>9 DEF Finish, Panic, TreeInv, HeaderAccepted, StructEnd, NULL
<1>10. CASE UNCHANGED vars
  BY <1>10 DEF vars, TreeInv, HeaderAccepted, StructEnd
<1>11. QED
  BY <1>1, <1>2, <1>3, <1>4, <1>5, <1>6, <1>7, <1>8, <1>9, <1>10 DEF Next

\* TreeInv holds throughout parsing.
THEOREM TreeInvariant == Spec => []TreeInv
<1>1. Init => TreeInv
  BY TreeInit
<1>2. TreeInv /\ [Next]_vars => TreeInv'
  BY TreeStep
<1>3. QED
  BY <1>1, <1>2, PTL DEF Spec

\* The cursor of parse_device_tree_blob never passes struct_end.
THEOREM CursorBounded == Spec => []CursorInBounds
<1>1. TreeInv => CursorInBounds
  BY DEF TreeInv, CursorInBounds
<1>2. QED
  BY <1>1, TreeInvariant, PTL

\* The parser reads the header, the reservations and the structure block within the
\* size the blob's header gives.
THEOREM ReadsBounded == Spec => []ReadsInBlob
<1>1. TreeInv => ReadsInBlob
  BY DEF TreeInv, ReadsInBlob
<1>2. QED
  BY <1>1, TreeInvariant, PTL

-----------------------------------------------------------------------------
(* What the parser stores.                                                 *)

\* physical_memory_regions does not decode more regions than it has room for.
LEMMA RegionsFit ==
    ASSUME NEW address_, NEW size_, NEW reg, reg.length \in Nat,
           RegAccepted(address_, size_, reg)
    PROVE  Len(Regions(address_, size_, reg)) <= MaxRegions
<1> DEFINE n == address_ + size_
           count == reg.length \div (4 * n)
<1>1. /\ address_ \in 1..2 /\ size_ \in 1..2 /\ count <= MaxRegions
  BY DEF RegAccepted, SizesAccepted, size_of_one_region_spec
<1>2. count \in Nat
  <2>1. n \in 2..4
    BY <1>1
  <2>2. n = 2 \/ n = 3 \/ n = 4
    BY <2>1
  <2>3. /\ reg.length \div 8 \in Nat /\ reg.length \div 12 \in Nat
        /\ reg.length \div 16 \in Nat
    OBVIOUS
  <2>4. 4 * 2 = 8 /\ 4 * 3 = 12 /\ 4 * 4 = 16
    OBVIOUS
  <2> HIDE DEF n
  <2> QED
    BY <2>2, <2>3, <2>4
<1> DEFINE region(i) ==
             [base_address |-> Number(reg.cells, (i - 1) * n + 1, address_),
              size |-> Number(reg.cells, (i - 1) * n + address_ + 1, size_)]
<1>3. Regions(address_, size_, reg) = [i \in 1..count |-> region(i)]
  BY DEF Regions
<1> HIDE DEF count, region
<1>4. Len([i \in 1..count |-> region(i)]) = count
  BY <1>2
<1> QED
  BY <1>1, <1>3, <1>4

StoreInv == WritesInHardwareInfo /\ current_node_reg.length \in Nat

\* A step that stores nothing, in the loop or at its end.
LEMMA NothingStored ==
    ASSUME StoreInv, current_node_reg'.length \in Nat,
           UNCHANGED <<header, reserved_regions_count, entries_written, regions>>,
           pc' = "panicked" \/ pc' = pc \/ (pc = "walk" /\ pc' = "done")
    PROVE  StoreInv'
  BY DEF StoreInv, WritesInHardwareInfo

LEMMA StoreStep == TreeInv /\ StoreInv /\ [Next]_vars => StoreInv'
<1> SUFFICES ASSUME TreeInv, StoreInv, [Next]_vars PROVE StoreInv'
  OBVIOUS
<1>0. current_node_reg.length \in Nat /\ NoReg.length \in Nat
  BY DEF StoreInv, NoReg
<1>1. CASE ParseHeader
  BY <1>1 DEF ParseHeader, Panic, parser_vars, StoreInv, WritesInHardwareInfo
<1>2. CASE Reserve
  <2>1. CASE Panic("space") \/ Panic("reservation")
    BY <1>0, <2>1, NothingStored DEF Panic, parser_vars
  <2>2. CASE /\ ~Full /\ entries_written' = reserved_regions_count + 1 /\ NextEntry
             /\ UNCHANGED <<header, parser_vars>> /\ pc = "reserve"
    <3>1. reserved_regions_count + 1 <= Room
      BY <2>2, TokenAssumption DEF Full, TreeInv
    <3>2. Len(regions') <= MaxRegions
      BY <2>2 DEF parser_vars, StoreInv, WritesInHardwareInfo
    <3>3. pc' \in {"walk", "done"} => /\ reserved_regions_count' = reserved_regions_count
                                      /\ reserved_regions_count = header'.reserved
      BY <2>2 DEF NextEntry
    <3>4. current_node_reg' = current_node_reg /\ entries_written' = reserved_regions_count + 1
      BY <2>2 DEF parser_vars
    <3> QED
      BY <1>0, <2>2, <3>1, <3>2, <3>3, <3>4 DEF StoreInv, WritesInHardwareInfo
  <2> QED
    BY <1>2, <2>1, <2>2 DEF Reserve
<1>3. CASE BeginNode
  BY <1>0, <1>3, NothingStored DEF BeginNode, AdvanceTo, Panic, parser_vars
<1>4. CASE EndNode
  BY <1>0, <1>4, NothingStored DEF EndNode, AdvanceTo, Panic, parser_vars
<1>5. CASE PropertyToken
  <2>1. PICK p \in Properties :
          IF ~PropertyAccepted(p) THEN Panic("property")
          ELSE /\ AdvanceTo(AlignUp(Data + p.length))
               /\ current_node_reg' = Reg(p)
               /\ regions' = IF IsMemory(p)
                             THEN Regions(AddressCells(p), SizeCells(p), Reg(p))
                             ELSE regions
    BY <1>5 DEF PropertyToken
  <2>2. CASE ~PropertyAccepted(p)
    BY <1>0, <2>1, <2>2, NothingStored DEF Panic, parser_vars
  <2>3. CASE PropertyAccepted(p)
    <3>0. Reg(p).length \in Nat
      BY <1>0, TokenAssumption DEF Reg
    <3>1. Len(regions') <= MaxRegions
      <4>1. CASE IsMemory(p)
        <5>1. RegAccepted(AddressCells(p), SizeCells(p), Reg(p))
          BY <2>3, <4>1 DEF PropertyAccepted
        <5>2. regions' = Regions(AddressCells(p), SizeCells(p), Reg(p))
          BY <2>1, <2>3, <4>1
        <5> QED
          BY <3>0, <5>1, <5>2, RegionsFit
      <4>2. CASE ~IsMemory(p)
        BY <2>1, <2>3, <4>2 DEF StoreInv, WritesInHardwareInfo
      <4> QED
        BY <4>1, <4>2
    <3>2. UNCHANGED <<pc, header, reserved_regions_count, entries_written>>
      BY <2>1, <2>3 DEF AdvanceTo
    <3> QED
      BY <2>1, <2>3, <3>0, <3>1, <3>2 DEF StoreInv, WritesInHardwareInfo
  <2> QED
    BY <2>2, <2>3
<1>6. CASE Nop
  BY <1>0, <1>6, NothingStored DEF Nop, AdvanceTo, parser_vars
<1>7. CASE End
  BY <1>0, <1>7, NothingStored DEF End, AdvanceTo
<1>8. CASE UnknownToken
  BY <1>0, <1>8, NothingStored DEF UnknownToken, Panic, parser_vars
<1>9. CASE Finish
  BY <1>0, <1>9, NothingStored DEF Finish, Panic, parser_vars
<1>10. CASE UNCHANGED vars
  BY <1>0, <1>10, NothingStored DEF vars, parser_vars
<1> QED
  BY <1>1, <1>2, <1>3, <1>4, <1>5, <1>6, <1>7, <1>8, <1>9, <1>10 DEF Next

\* Nothing is stored beyond the arrays of HardwareInfo, and the count of reservations
\* is right: for any number of reservations in the blob and any reg.
THEOREM StoresBounded == Spec => []WritesInHardwareInfo
<1>1. Init => StoreInv
  <2>1. Room >= 0 /\ MaxRegions >= 0
    BY TokenAssumption, RegionAssumption
  <2> QED
    BY <2>1 DEF Init, StoreInv, WritesInHardwareInfo, NoReg
<1>2. TreeInv /\ StoreInv /\ [Next]_vars => StoreInv'
  BY StoreStep
<1>3. StoreInv => WritesInHardwareInfo
  BY DEF StoreInv
<1> QED
  BY <1>1, <1>2, <1>3, TreeInvariant, PTL DEF Spec

-----------------------------------------------------------------------------
(* What the parser remembers, against what the blob says.                  *)

DeviceTypes == {NULL} \cup {p.value : p \in {q \in Properties : q.name = "device_type"}}
Regs == {NoReg} \cup {p \in Properties : p.name = "reg"}
Node == [device_type : DeviceTypes, reg : Regs, has_child : BOOLEAN]

\* The history is of nodes, and the parser follows it.
FollowInv == open_nodes \in Seq(Node) /\ ParserFollows /\ RegionsAreDeclared

\* The nodes that stay open, and the new one on top of them.
Deeper(nodes) ==
    Append([i \in DOMAIN nodes |-> [nodes[i] EXCEPT !.has_child = TRUE]], NewNode)

\* A new node lies in all the others.
LEMMA DeeperNodes ==
    ASSUME NEW nodes \in Seq(Node)
    PROVE  /\ Deeper(nodes) \in Seq(Node)
           /\ Len(Deeper(nodes)) = Len(nodes) + 1
           /\ Deeper(nodes)[Len(nodes) + 1] = NewNode
           /\ \A i \in 1 .. Len(nodes) : Deeper(nodes)[i].has_child
<1> DEFINE parents == [i \in DOMAIN nodes |-> [nodes[i] EXCEPT !.has_child = TRUE]]
<1>1. /\ DOMAIN nodes = 1 .. Len(nodes) /\ Len(nodes) \in Nat
      /\ \A i \in 1 .. Len(nodes) : nodes[i] \in Node
  OBVIOUS
<1>2. parents \in [1 .. Len(nodes) -> Node]
  BY <1>1 DEF Node
<1>3. parents \in Seq(Node) /\ Len(parents) = Len(nodes)
  BY <1>1, <1>2
<1>4. \A i \in 1 .. Len(nodes) : parents[i].has_child
  BY <1>1 DEF Node
<1>5. NewNode \in Node
  BY DEF NewNode, Node, DeviceTypes, Regs
<1> HIDE DEF parents
<1>6. Deeper(nodes) = Append(parents, NewNode)
  BY DEF Deeper, parents
<1> QED
  BY <1>1, <1>3, <1>4, <1>5, <1>6

\* The indices of a sequence that is not empty.
LEMMA Indices ==
    ASSUME NEW n \in Nat, n # 0
    PROVE  /\ n \in 1 .. n
           /\ n - 1 \in Nat
           /\ \A i \in 1 .. n - 1 : i \in 1 .. n /\ i # n /\ 1 + i - 1 = i
           /\ 1 <= n - 1 => n - 1 - 1 + 1 = n - 1
  OBVIOUS

\* The nodes that stay open when the innermost ends.
LEMMA FrontNodes ==
    ASSUME NEW nodes \in Seq(Node), nodes # <<>>
    PROVE  /\ Front(nodes) \in Seq(Node)
           /\ Len(Front(nodes)) = Len(nodes) - 1
           /\ \A i \in 1 .. Len(nodes) - 1 : Front(nodes)[i] = nodes[i]
<1> DEFINE n == Len(nodes)
<1>1. n \in Nat /\ n # 0 /\ \A i \in 1 .. n : nodes[i] \in Node
  OBVIOUS
<1> HIDE DEF n
<1>2. /\ n - 1 \in Int /\ 1 \in Int
      /\ \A i \in 1 .. n - 1 : nodes[i] \in Node
  BY <1>1
<1>3. /\ SubSeq(nodes, 1, n - 1) \in Seq(Node)
      /\ Len(SubSeq(nodes, 1, n - 1)) = IF 1 <= n - 1 THEN n - 1 - 1 + 1 ELSE 0
      /\ \A i \in 1 .. n - 1 - 1 + 1 : SubSeq(nodes, 1, n - 1)[i] = nodes[1 + i - 1]
  BY <1>2, SubSeqProperties
<1>4. Len(SubSeq(nodes, 1, n - 1)) = n - 1
  BY <1>1, <1>3
<1>5. \A i \in 1 .. n - 1 : SubSeq(nodes, 1, n - 1)[i] = nodes[i]
  <2> SUFFICES ASSUME NEW i \in 1 .. n - 1
               PROVE  SubSeq(nodes, 1, n - 1)[i] = nodes[i]
    OBVIOUS
  <2>1. i \in 1 .. n - 1 - 1 + 1 /\ 1 + i - 1 = i
    BY <1>1
  <2> QED
    BY <1>3, <2>1
<1> QED
  BY <1>3, <1>4, <1>5 DEF Front, n

\* A property changes the innermost node only.
LEMMA NotedNodes ==
    ASSUME NEW nodes \in Seq(Node), nodes # <<>>, NEW node \in Node
    PROVE  LET noted == [nodes EXCEPT ![Len(nodes)] = node]
           IN  /\ noted \in Seq(Node)
               /\ Len(noted) = Len(nodes)
               /\ noted[Len(nodes)] = node
               /\ \A i \in 1 .. Len(nodes) - 1 : noted[i] = nodes[i]
<1> DEFINE n == Len(nodes)
           noted == [nodes EXCEPT ![n] = node]
<1>1. n \in Nat /\ n # 0 /\ nodes \in [1 .. n -> Node]
  OBVIOUS
<1> HIDE DEF n
<1>2. n \in 1 .. n /\ \A i \in 1 .. n - 1 : i \in 1 .. n /\ i # n
  BY <1>1, Indices
<1>3. /\ noted \in [1 .. n -> Node]
      /\ noted[n] = node
      /\ \A i \in 1 .. n - 1 : noted[i] = nodes[i]
  BY <1>1, <1>2
<1> HIDE DEF noted
<1>4. noted \in Seq(Node) /\ Len(noted) = n
  BY <1>1, <1>3
<1> QED
  BY <1>3, <1>4 DEF n, noted

LEMMA FollowInit == Init => FollowInv
<1> SUFFICES ASSUME Init PROVE FollowInv
  OBVIOUS
<1>1. open_nodes = <<>> /\ node_depth = 0 /\ declared = NoReg /\ regions = <<>>
  BY DEF Init
<1>2. open_nodes \in Seq(Node) /\ Len(open_nodes) = 0
  BY <1>1
<1> QED
  BY <1>1, <1>2 DEF FollowInv, ParserFollows, RegionsAreDeclared

\* A panic leaves the history as it is, and nothing is claimed of the parser.
LEMMA PanicFollows ==
    ASSUME FollowInv, NEW reason, Panic(reason)
    PROVE  FollowInv'
  BY DEF FollowInv, ParserFollows, RegionsAreDeclared, Panic, history_vars

\* So does a step that changes neither the history nor what the parser knows.
LEMMA StillFollows ==
    ASSUME FollowInv, pc # "panicked", UNCHANGED history_vars,
           UNCHANGED <<node_depth, node_name_length, current_node_device_type,
                       current_node_reg, address_cells, size_cells, regions>>
    PROVE  FollowInv'
  BY DEF FollowInv, ParserFollows, RegionsAreDeclared, Top, history_vars

\* A blob that breaks the format: nothing is claimed from then on.
LEMMA BrokenFollows ==
    ASSUME ~conforming', open_nodes' = <<>>
    PROVE  FollowInv'
<1>1. <<>> \in Seq(Node)
  OBVIOUS
<1> QED
  BY <1>1 DEF FollowInv, ParserFollows, RegionsAreDeclared

\* A node begins: nothing is known of it yet, and its parents take no more properties.
LEMMA BeginFollows ==
    ASSUME FollowInv, pc # "panicked", NEW n \in Nat, OpenNode(n),
           node_depth' = node_depth + 1, node_name_length' = n,
           current_node_device_type' = NULL, current_node_reg' = NoReg,
           UNCHANGED <<address_cells, size_cells, regions>>
    PROVE  FollowInv'
<1> DEFINE ok == conforming /\ NodeConforms(n)
<1>1. /\ conforming' = ok
      /\ open_nodes' = IF ok THEN Deeper(open_nodes) ELSE <<>>
      /\ declared' = IF ok THEN declared ELSE NoReg
  BY DEF OpenNode, Conform, Deeper
<1>2. CASE ~ok
  BY <1>1, <1>2, BrokenFollows
<1>3. CASE ok
  <2> DEFINE k == Len(open_nodes)
  <2>1. open_nodes \in Seq(Node) /\ k \in Nat /\ (open_nodes = <<>> <=> k = 0)
    BY DEF FollowInv
  <2>2. /\ open_nodes' \in Seq(Node)
        /\ Len(open_nodes)' = k + 1
        /\ open_nodes'[k + 1] = NewNode
        /\ \A i \in 1 .. k : open_nodes'[i].has_child
    BY <1>1, <1>3, <2>1, DeeperNodes
  <2>3. /\ node_depth = k
        /\ declared # NoReg => address_cells # 0 /\ size_cells # 0
        /\ regions = IF declared = NoReg THEN <<>>
                     ELSE Regions(address_cells, size_cells, declared)
    BY <1>3 DEF FollowInv, ParserFollows, RegionsAreDeclared
  <2>4. n = 0 <=> k = 0
    BY <1>3, <2>1 DEF NodeConforms
  <2>5. declared' = declared
    BY <1>1, <1>3
  <2> HIDE DEF k
  <2>6. /\ node_depth' = Len(open_nodes)'
        /\ \A i \in 1 .. Len(open_nodes') - 1 : open_nodes'[i].has_child
        /\ node_name_length' = 0 <=> Len(open_nodes') = 1
    BY <2>1, <2>2, <2>3, <2>4
  <2>7. Top'.reg = NoReg /\ Top'.device_type = NULL
    BY <2>2 DEF Top, NewNode
  <2>8. ParserFollows'
    BY <2>3, <2>5, <2>6, <2>7 DEF ParserFollows, NULL
  <2>9. RegionsAreDeclared'
    BY <2>3, <2>5 DEF RegionsAreDeclared
  <2> QED
    BY <2>2, <2>8, <2>9 DEF FollowInv
<1> QED
  BY <1>2, <1>3

\* A node ends: the one it lay in has a child, and what is remembered of the child
\* is never taken for it.
LEMMA EndFollows ==
    ASSUME FollowInv, pc # "panicked", node_depth > 0,
           node_depth' = node_depth - 1,
           open_nodes' = IF conforming THEN Front(open_nodes) ELSE <<>>,
           UNCHANGED <<conforming, declared, address_cells, size_cells, regions>>
    PROVE  FollowInv'
<1>1. CASE ~conforming
  BY <1>1, BrokenFollows
<1>2. CASE conforming
  <2> DEFINE k == Len(open_nodes)
  <2>1. /\ open_nodes \in Seq(Node) /\ k \in Nat /\ node_depth = k
        /\ \A i \in 1 .. k - 1 : open_nodes[i].has_child
        /\ declared # NoReg => address_cells # 0 /\ size_cells # 0
    BY <1>2 DEF FollowInv, ParserFollows
  <2>2. open_nodes # <<>>
    BY <2>1
  <2>3. /\ open_nodes' \in Seq(Node) /\ Len(open_nodes') = k - 1
        /\ \A i \in 1 .. k - 1 : open_nodes'[i] = open_nodes[i]
    BY <1>2, <2>1, <2>2, FrontNodes
  <2>4. \A i \in 1 .. Len(open_nodes') : open_nodes'[i].has_child
    BY <2>1, <2>3
  <2>5. open_nodes' # <<>> => Len(open_nodes') \in 1 .. Len(open_nodes')
    BY <2>3
  <2>6. open_nodes' # <<>> => Top'.has_child
    BY <2>4, <2>5 DEF Top
  <2>7. \A i \in 1 .. Len(open_nodes') - 1 : open_nodes'[i].has_child
    BY <2>1, <2>3, <2>4
  <2>8. ParserFollows'
    BY <2>1, <2>3, <2>6, <2>7 DEF ParserFollows
  <2>9. RegionsAreDeclared'
    BY <1>2 DEF FollowInv, RegionsAreDeclared
  <2> QED
    BY <2>3, <2>8, <2>9 DEF FollowInv
<1> QED
  BY <1>1, <1>2

\* The innermost node with what property p says of it.
Noted(p) == [Top EXCEPT !.reg = IF p.name = "reg" THEN p ELSE @,
                        !.device_type = IF p.name = "device_type" THEN p.value ELSE @]

\* A property of an open node: the parser takes from it what the blob means, and
\* finds memory where the blob declares it.
LEMMA NotedFollows ==
    ASSUME FollowInv, conforming, pc # "panicked", open_nodes # <<>>,
           NEW p \in Properties, PropertyConforms(p)
    PROVE  /\ Noted(p) \in Node /\ ~Noted(p).has_child
           /\ Reg(p) = Noted(p).reg
           /\ DeviceType(p) = "memory" <=> Noted(p).device_type = "memory"
           /\ declared # NoReg => AddressCells(p) = address_cells /\ SizeCells(p) = size_cells
<1> DEFINE k == Len(open_nodes)
<1>1. k \in Nat /\ k # 0 /\ open_nodes[k] \in Node
  BY DEF FollowInv
<1>2. Top \in Node
  BY <1>1 DEF Top
<1>3. /\ node_name_length = 0 <=> k = 1
      /\ current_node_reg = Top.reg
      /\ current_node_device_type = "memory" <=> Top.device_type = "memory"
      /\ declared # NoReg => address_cells # 0 /\ size_cells # 0
      /\ ~Top.has_child
  BY DEF FollowInv, ParserFollows, PropertyConforms
<1>4. /\ Noted(p).reg = IF p.name = "reg" THEN p ELSE Top.reg
      /\ Noted(p).device_type =
            IF p.name = "device_type" THEN p.value ELSE Top.device_type
      /\ Noted(p).has_child = Top.has_child
      /\ Noted(p) \in Node
  BY <1>2 DEF Noted, Node, DeviceTypes, Regs
<1>5. Reg(p) = Noted(p).reg
  BY <1>3, <1>4 DEF Reg
<1>6. DeviceType(p) = "memory" <=> Noted(p).device_type = "memory"
  <2>1. CASE p.name = "device_type"
    <3>1. Top.device_type = NULL
      BY <2>1 DEF PropertyConforms
    <3>2. p.value = "memory" => p.length = 7
      BY <2>1, TokenAssumption
    <3> QED
      BY <1>3, <1>4, <2>1, <3>1, <3>2 DEF DeviceType, NULL
  <2>2. CASE p.name # "device_type"
    BY <1>3, <1>4, <2>2 DEF DeviceType
  <2> QED
    BY <2>1, <2>2
<1>7. ASSUME declared # NoReg
      PROVE  AddressCells(p) = address_cells /\ SizeCells(p) = size_cells
  <2>1. /\ p.name = "address_cells" => k > 1
        /\ p.name = "size_cells" => k > 1
    BY <1>3, <1>7 DEF PropertyConforms
  <2>2. node_name_length = 0 => ~(k > 1)
    BY <1>1, <1>3
  <2>3. node_name_length = 0 => p.name # "address_cells" /\ p.name # "size_cells"
    BY <2>1, <2>2
  <2> QED
    BY <2>3 DEF AddressCells, SizeCells
<1> QED
  BY <1>3, <1>4, <1>5, <1>6, <1>7

LEMMA PropertyFollows ==
    ASSUME FollowInv, pc # "panicked", NEW p \in Properties,
           PropertyAccepted(p), NoteProperty(p),
           address_cells' = AddressCells(p), size_cells' = SizeCells(p),
           current_node_device_type' = DeviceType(p), current_node_reg' = Reg(p),
           regions' = IF IsMemory(p)
                      THEN Regions(AddressCells(p), SizeCells(p), Reg(p))
                      ELSE regions,
           UNCHANGED <<node_depth, node_name_length>>
    PROVE  FollowInv'
<1> DEFINE ok == conforming /\ open_nodes # <<>> /\ PropertyConforms(p)
           memory == Noted(p).reg # NoReg /\ Noted(p).device_type = "memory"
           noted == [open_nodes EXCEPT ![Len(open_nodes)] = Noted(p)]
<1>1. /\ conforming' = ok
      /\ open_nodes' = IF ok THEN noted ELSE <<>>
      /\ declared' = IF ok THEN IF memory THEN Noted(p).reg ELSE declared ELSE NoReg
  <2>1. CASE open_nodes = <<>>
    BY <2>1 DEF NoteProperty, Conform
  <2>2. CASE open_nodes # <<>>
    BY <2>2 DEF NoteProperty, Conform, Noted
  <2> QED
    BY <2>1, <2>2
<1>2. CASE ~ok
  BY <1>1, <1>2, BrokenFollows
<1>3. CASE ok
  <2> DEFINE k == Len(open_nodes)
  <2>1. /\ open_nodes \in Seq(Node) /\ k \in Nat /\ k # 0 /\ node_depth = k
        /\ \A i \in 1 .. k - 1 : open_nodes[i].has_child
        /\ ~Top.has_child
        /\ node_name_length = 0 <=> k = 1
        /\ declared # NoReg => address_cells # 0 /\ size_cells # 0
        /\ regions = IF declared = NoReg THEN <<>>
                     ELSE Regions(address_cells, size_cells, declared)
    BY <1>3 DEF FollowInv, ParserFollows, RegionsAreDeclared, PropertyConforms
  <2>2. /\ Noted(p) \in Node /\ ~Noted(p).has_child
        /\ Reg(p) = Noted(p).reg
        /\ DeviceType(p) = "memory" <=> Noted(p).device_type = "memory"
        /\ declared # NoReg => AddressCells(p) = address_cells /\ SizeCells(p) = size_cells
    BY <1>3, NotedFollows
  <2>3. /\ open_nodes' \in Seq(Node) /\ Len(open_nodes') = k
        /\ open_nodes'[k] = Noted(p)
        /\ \A i \in 1 .. k - 1 : open_nodes'[i] = open_nodes[i]
    BY <1>1, <1>3, <2>1, <2>2, NotedNodes
  <2>4. IsMemory(p) <=> memory
    BY <2>2 DEF IsMemory
  <2>5. memory => /\ AddressCells(p) # 0 /\ SizeCells(p) # 0
                  /\ declared' = Reg(p)
    BY <1>1, <1>3, <2>2, <2>4 DEF PropertyAccepted
  <2>6. ~memory => declared' = declared
    BY <1>1, <1>3
  <2> HIDE DEF memory
  <2>7. declared' # NoReg => address_cells' # 0 /\ size_cells' # 0
    BY <2>1, <2>2, <2>5, <2>6
  <2>8. Top' = Noted(p)
    BY <2>3 DEF Top
  <2>9. ParserFollows'
    BY <2>1, <2>2, <2>3, <2>7, <2>8 DEF ParserFollows
  <2>10. Reg(p) # NoReg \/ ~memory
    BY <2>2 DEF memory
  <2>11. RegionsAreDeclared'
    BY <2>1, <2>2, <2>4, <2>5, <2>6, <2>10 DEF RegionsAreDeclared
  <2> QED
    BY <2>3, <2>9, <2>11 DEF FollowInv
<1> QED
  BY <1>2, <1>3

LEMMA FollowStep == FollowInv /\ [Next]_vars => FollowInv'
<1> SUFFICES ASSUME FollowInv, [Next]_vars PROVE FollowInv'
  OBVIOUS
<1>1. CASE ParseHeader
  <2>1. CASE HeaderAccepted
    BY <1>1, <2>1, StillFollows DEF ParseHeader, parser_vars
  <2>2. CASE ~HeaderAccepted
    BY <1>1, <2>2, PanicFollows DEF ParseHeader
  <2> QED
    BY <2>1, <2>2
<1>2. CASE Reserve
  <2>1. CASE Panic("space") \/ Panic("reservation")
    BY <2>1, PanicFollows
  <2>2. CASE UNCHANGED <<parser_vars, history_vars>>
    <3>1. pc # "panicked"
      BY <1>2 DEF Reserve
    <3> QED
      BY <2>2, <3>1, StillFollows DEF parser_vars
  <2> QED
    BY <1>2, <2>1, <2>2 DEF Reserve, parser_vars, history_vars
<1>3. CASE BeginNode
  <2>1. PICK n \in NameLengths :
          \/ Panic("name")
          \/ /\ OpenNode(n)
             /\ node_depth' = node_depth + 1 /\ node_name_length' = n
             /\ current_node_device_type' = NULL /\ current_node_reg' = NoReg
             /\ UNCHANGED <<address_cells, size_cells, regions>>
    BY <1>3 DEF BeginNode
  <2>2. pc # "panicked" /\ n \in Nat
    BY <1>3, TokenAssumption DEF BeginNode, TokenRead
  <2> QED
    BY <2>1, <2>2, PanicFollows, BeginFollows
<1>4. CASE EndNode
  <2>1. CASE Panic("end node")
    BY <2>1, PanicFollows
  <2>2. CASE /\ node_depth > 0 /\ node_depth' = node_depth - 1
             /\ open_nodes' = IF conforming THEN Front(open_nodes) ELSE <<>>
             /\ UNCHANGED <<conforming, declared, address_cells, size_cells, regions>>
    <3>1. pc # "panicked"
      BY <1>4 DEF EndNode, TokenRead
    <3> QED
      BY <2>2, <3>1, EndFollows
  <2> QED
    BY <1>4, <2>1, <2>2 DEF EndNode
<1>5. CASE PropertyToken
  <2>1. PICK p \in Properties :
          IF ~PropertyAccepted(p) THEN Panic("property")
          ELSE /\ address_cells' = AddressCells(p)
               /\ size_cells' = SizeCells(p)
               /\ current_node_device_type' = DeviceType(p)
               /\ current_node_reg' = Reg(p)
               /\ regions' = IF IsMemory(p)
                             THEN Regions(AddressCells(p), SizeCells(p), Reg(p))
                             ELSE regions
               /\ NoteProperty(p)
               /\ UNCHANGED <<node_depth, node_name_length>>
    BY <1>5 DEF PropertyToken
  <2>2. pc # "panicked"
    BY <1>5 DEF PropertyToken, TokenRead
  <2>3. CASE PropertyAccepted(p)
    BY <2>1, <2>2, <2>3, PropertyFollows
  <2>4. CASE ~PropertyAccepted(p)
    BY <2>1, <2>4, PanicFollows
  <2> QED
    BY <2>3, <2>4
<1>6. CASE Nop
  BY <1>6, StillFollows DEF Nop, TokenRead, parser_vars
<1>7. CASE End
  BY <1>7, StillFollows DEF End, TokenRead
<1>8. CASE UnknownToken
  BY <1>8, PanicFollows DEF UnknownToken
<1>9. CASE Finish
  <2>1. CASE Panic("balance") \/ Panic("end")
    BY <2>1, PanicFollows
  <2>2. CASE UNCHANGED <<parser_vars, history_vars>>
    <3>1. pc # "panicked"
      BY <1>9 DEF Finish
    <3> QED
      BY <2>2, <3>1, StillFollows DEF parser_vars
  <2> QED
    BY <1>9, <2>1, <2>2 DEF Finish
<1>10. CASE UNCHANGED vars
  BY <1>10 DEF vars, parser_vars, history_vars, FollowInv, ParserFollows,
               RegionsAreDeclared, Top
<1> QED
  BY <1>1, <1>2, <1>3, <1>4, <1>5, <1>6, <1>7, <1>8, <1>9, <1>10 DEF Next

\* The parser follows the blob throughout parsing, and its regions are those declared.
THEOREM FollowInvariant == Spec => []FollowInv
<1>1. Init => FollowInv
  BY FollowInit
<1>2. FollowInv /\ [Next]_vars => FollowInv'
  BY FollowStep
<1> QED
  BY <1>1, <1>2, PTL DEF Spec

\* Whatever nodes a well-formed blob has, however deep, what the parser remembers of
\* the node it last began is what the blob says of it.
THEOREM ParserFollowsBlob == Spec => []ParserFollows
<1>1. FollowInv => ParserFollows
  BY DEF FollowInv
<1> QED
  BY <1>1, FollowInvariant, PTL

\* physical_memory_regions is what the last memory node of a well-formed blob
\* declares, decoded with the cells of its root.
THEOREM RegionsFaithful == Spec => []RegionsAreDeclared
<1>1. FollowInv => RegionsAreDeclared
  BY DEF FollowInv
<1> QED
  BY <1>1, FollowInvariant, PTL
=============================================================================
