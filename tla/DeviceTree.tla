------------------------------ MODULE DeviceTree -----------------------------
(***************************************************************************)
(* parse_device_tree_blob of kernel/Hardware/DeviceTree.c.                 *)
(*                                                                         *)
(* The header and the reservations of the blob are chosen at the start,    *)
(* the tokens of its structure block when the cursor comes to them: every  *)
(* byte of the block is read at most once as a token, a name or a length.  *)
(* Offsets count bytes from the start of the structure block, which lies   *)
(* `skew` bytes above a multiple of four.                                  *)
(*                                                                         *)
(* open_nodes, conforming and declared are history: what the blob says, by *)
(* the rules of the format, up to the cursor.  So is entries_written.      *)
(***************************************************************************)
EXTENDS MemoryRegions

CONSTANTS
    Headers,      \* headers a blob may have: see HeaderAssumption
    Room,         \* reservations that HardwareInfo can hold: 255
    NameLengths,  \* lengths of node names
    Properties,   \* properties: a name, a length, and a value for some names
    NameOffset    \* by property name, its place in the strings block

PropertyName == {"address_cells", "size_cells", "device_type", "reg", "other"}

ASSUME HeaderAssumption ==
    \A h \in Headers :
        /\ h.magic_ok \in BOOLEAN
        /\ h.skew \in 0..3
        /\ h.reserved \in Nat
        /\ \A f \in {"total_size", "off_mem_rsvmap", "off_dt_struct",
                     "size_dt_struct", "off_dt_strings", "size_dt_strings"} :
              h[f] \in Nat

\* The string "memory" takes seven bytes, its terminator included.
ASSUME TokenAssumption ==
    /\ Room \in Nat
    /\ NameLengths \subseteq Nat
    /\ NameOffset \in [PropertyName -> Nat]
    /\ \A p \in Properties : p.name \in PropertyName /\ p.length \in Nat
    /\ \A p \in Properties :
          p.name = "device_type" => (p.value = "memory" => p.length = 7)

\* Pointers that have not been set for this node.
NULL == "null"
NoReg == [name |-> "none", length |-> 0]

VARIABLES
    pc,            \* "header", "reserve", "walk", "done" or "panicked"
    why,           \* what kernel_panic was called for, or NULL
    header,        \* the blob's header
    reserved_regions_count,
    entries_written,  \* of reserved_region_base_addresses and reserved_region_sizes
    dtb_cursor,
    node_depth,
    node_name_length,          \* 0: the name is empty
    current_node_device_type,  \* NULL or "memory"
    current_node_reg,          \* NoReg or the property
    address_cells, size_cells, \* 0 until they are initialized
    end_tokens_encountered,
    regions,       \* physical_memory_regions
    read_end,      \* end of the last read, as an offset into the blob
    name_end,      \* end of the name read with it, likewise, or 0
    open_nodes,    \* the nodes the cursor is in, the root first
    conforming,    \* the blob has kept to the format so far
    declared       \* the reg of the memory node last declared, or NoReg

parser_vars == <<node_depth, node_name_length, current_node_device_type,
                 current_node_reg, address_cells, size_cells,
                 end_tokens_encountered, regions>>
history_vars == <<open_nodes, conforming, declared>>
vars == <<pc, why, header, reserved_regions_count, entries_written, dtb_cursor,
          parser_vars, read_end, name_end, history_vars>>

\* struct_end
StructEnd == header.size_dt_struct

AlignUp(offset) == offset + ((4 - ((header.skew + offset) % 4)) % 4)

Init == /\ pc = "header" /\ why = NULL
        /\ header \in Headers
        /\ reserved_regions_count = 0 /\ entries_written = 0
        /\ dtb_cursor = 0
        /\ node_depth = 0 /\ node_name_length = 0
        /\ current_node_device_type = NULL /\ current_node_reg = NoReg
        /\ address_cells = 0 /\ size_cells = 0
        /\ end_tokens_encountered = 0
        /\ regions = <<>>
        /\ read_end = 0 /\ name_end = 0
        /\ open_nodes = <<>> /\ conforming = TRUE /\ declared = NoReg

\* kernel_panic does not return: what was half changed by then is never read again.
Panic(reason) == /\ pc' = "panicked" /\ why' = reason
                 /\ UNCHANGED <<header, reserved_regions_count, entries_written,
                                dtb_cursor, parser_vars, history_vars>>

-----------------------------------------------------------------------------
(* The header: a magic number, and offsets and sizes within the blob.      *)

HeaderAccepted == /\ header.magic_ok
                  /\ header.total_size >= 40
                  /\ header.off_mem_rsvmap < header.total_size
                  /\ header.off_dt_struct + header.size_dt_struct
                        <= header.total_size
                  /\ header.off_dt_strings + header.size_dt_strings
                        <= header.total_size

ParseHeader ==
    /\ pc = "header"
    /\ read_end' = IF ~header.magic_ok THEN 4
                   ELSE IF header.total_size < 40 THEN 8 ELSE 40
    /\ name_end' = 0
    /\ \/ /\ HeaderAccepted
          /\ pc' = "reserve"
          /\ UNCHANGED <<why, header, reserved_regions_count, entries_written,
                         dtb_cursor, parser_vars, history_vars>>
       \/ ~HeaderAccepted /\ Panic("header")

-----------------------------------------------------------------------------
(* The memory reservation map: header.reserved entries and a terminator.   *)

ReservationEnd == header.off_mem_rsvmap + 16 * reserved_regions_count + 16

\* A plausible slip: the arrays are taken to have one entry more.
FullTooLate == reserved_regions_count > Room

Full == reserved_regions_count >= Room

\* A plausible slip: the entry is read before its end is checked.
InBlobUnchecked == TRUE

InBlob == ReservationEnd <= header.total_size

\* A plausible slip: the index is not advanced.
NextEntryStaying ==
    IF reserved_regions_count = header.reserved
    THEN pc' = "walk" /\ UNCHANGED reserved_regions_count
    ELSE UNCHANGED <<pc, reserved_regions_count>>

\* The index i and reserved_regions_count advance together, up to the terminator.
NextEntry ==
    IF reserved_regions_count = header.reserved
    THEN pc' = "walk" /\ UNCHANGED reserved_regions_count
    ELSE /\ reserved_regions_count' = reserved_regions_count + 1
         /\ UNCHANGED pc

\* The entry is stored before it is known to be the terminator.
Reserve ==
    /\ pc = "reserve"
    /\ name_end' = 0
    /\ \/ Full /\ Panic("space") /\ UNCHANGED read_end
       \/ ~Full /\ ~InBlob /\ Panic("reservation") /\ UNCHANGED read_end
       \/ /\ ~Full /\ InBlob
          /\ read_end' = ReservationEnd
          /\ entries_written' = reserved_regions_count + 1
          /\ NextEntry
          /\ UNCHANGED <<why, header, dtb_cursor, parser_vars, history_vars>>

-----------------------------------------------------------------------------
(* The structure block, a token at a time.                                 *)

\* The cursor after the token.
Token == dtb_cursor + 4

\* The loop goes on: there is a token to read.
TokenRead == pc = "walk" /\ StructEnd - dtb_cursor >= 4

ReadUpTo(offset) == read_end' = header.off_dt_struct + offset

\* A token is consumed and the cursor stands at `offset`.
AdvanceTo(offset) == /\ dtb_cursor' = offset
                     /\ UNCHANGED <<pc, why, header, reserved_regions_count,
                                    entries_written>>

Front(nodes) == SubSeq(nodes, 1, Len(nodes) - 1)
Top == open_nodes[Len(open_nodes)]

\* The root has the empty name, and no other node has.
NodeConforms(n) == n = 0 <=> open_nodes = <<>>

NewNode == [device_type |-> NULL, reg |-> NoReg, has_child |-> FALSE]

\* The history of a blob that breaks the format is not kept.
Conform(ok, nodes, reg) ==
    /\ conforming' = (conforming /\ ok)
    /\ open_nodes' = IF conforming /\ ok THEN nodes ELSE <<>>
    /\ declared' = IF conforming /\ ok THEN reg ELSE NoReg

OpenNode(n) ==
    Conform(NodeConforms(n),
            Append([i \in DOMAIN open_nodes |-> [open_nodes[i] EXCEPT !.has_child = TRUE]],
                   NewNode),
            declared)

\* A plausible slip: what was read of the previous node is not forgotten.
BeginNodeKeeping ==
    /\ TokenRead
    /\ name_end' = 0
    /\ \E n \in NameLengths :
        LET next == AlignUp(Token + n + 1)
        IN  IF Token + n >= StructEnd \/ next > StructEnd
            THEN Panic("name") /\ ReadUpTo(StructEnd)
            ELSE /\ ReadUpTo(Token + n + 1)
                 /\ AdvanceTo(next)
                 /\ node_depth' = node_depth + 1
                 /\ node_name_length' = n
                 /\ OpenNode(n)
                 /\ UNCHANGED <<current_node_device_type, current_node_reg,
                                address_cells, size_cells,
                                end_tokens_encountered, regions>>

\* FDT_BEGIN_NODE and a name of n bytes and its terminator, read byte by byte and
\* never beyond the block.
BeginNode ==
    /\ TokenRead
    /\ name_end' = 0
    /\ \E n \in NameLengths :
        LET next == AlignUp(Token + n + 1)
        IN  IF Token + n >= StructEnd \/ next > StructEnd
            THEN Panic("name") /\ ReadUpTo(StructEnd)
            ELSE /\ ReadUpTo(Token + n + 1)
                 /\ AdvanceTo(next)
                 /\ node_depth' = node_depth + 1
                 /\ node_name_length' = n
                 /\ current_node_device_type' = NULL
                 /\ current_node_reg' = NoReg
                 /\ OpenNode(n)
                 /\ UNCHANGED <<address_cells, size_cells,
                                end_tokens_encountered, regions>>

\* FDT_END_NODE.  Nothing of the parent is restored.
EndNode ==
    /\ TokenRead
    /\ ReadUpTo(Token)
    /\ name_end' = 0
    /\ \/ node_depth = 0 /\ Panic("end node")
       \/ /\ node_depth > 0
          /\ AdvanceTo(Token)
          /\ node_depth' = node_depth - 1
          /\ open_nodes' = IF conforming THEN Front(open_nodes) ELSE <<>>
          /\ UNCHANGED <<node_name_length, current_node_device_type,
                         current_node_reg, address_cells, size_cells,
                         end_tokens_encountered, regions, conforming, declared>>

-----------------------------------------------------------------------------
(* FDT_PROP: a length, the offset of a name, a value.                      *)

Data == Token + 8

\* A plausible slip: the padding of the value is not checked.
PropertyFitsUnpadded(p) == /\ StructEnd - Token >= 8
                           /\ p.length <= StructEnd - Data
                           /\ NameOffset[p.name] < header.size_dt_strings

\* The property's length and name lie within their blocks.
PropertyFits(p) == /\ StructEnd - Token >= 8
                   /\ p.length <= StructEnd - Data
                   /\ AlignUp(Data + p.length) <= StructEnd
                   /\ NameOffset[p.name] < header.size_dt_strings

\* The comparisons with the names look at the byte where the name would end.
NameReadEnd(p) == header.off_dt_strings + NameOffset[p.name]
                    + (IF node_name_length = 0 THEN 15 ELSE 12)

\* A plausible slip: the type of the node is not looked at.
DeviceTypeAny(p) == IF p.name = "device_type" THEN "memory" ELSE current_node_device_type

\* The value as the parser understands it after this property.
AddressCells(p) == IF node_name_length = 0 /\ p.name = "address_cells"
                   THEN p.value ELSE address_cells
SizeCells(p) == IF node_name_length = 0 /\ p.name = "size_cells"
                THEN p.value ELSE size_cells
DeviceType(p) == IF p.name = "device_type" /\ p.length = 7 /\ p.value = "memory"
                 THEN "memory" ELSE current_node_device_type
Reg(p) == IF p.name = "reg" THEN p ELSE current_node_reg

\* reg and device_type are known: the node is memory.
IsMemory(p) == Reg(p) # NoReg /\ DeviceType(p) = "memory"

CellsFit(p) == node_name_length = 0 /\ p.name \in {"address_cells", "size_cells"}
                    => p.length = 4

PropertyAccepted(p) ==
    /\ PropertyFits(p)
    /\ CellsFit(p)
    /\ IsMemory(p) => /\ AddressCells(p) # 0 /\ SizeCells(p) # 0
                      /\ RegAccepted(AddressCells(p), SizeCells(p), Reg(p))

\* Properties stand before the node's children, once each, and the cells that
\* matter are the root's.
PropertyConforms(p) ==
    /\ ~Top.has_child
    /\ p.name = "reg" => Top.reg = NoReg
    /\ p.name = "device_type" => Top.device_type = NULL
    /\ p.name = "address_cells" => Len(open_nodes) > 1 \/ address_cells = 0
    /\ p.name = "size_cells" => Len(open_nodes) > 1 \/ size_cells = 0

\* What the property says of the node it stands in.
NoteProperty(p) ==
    LET node == [Top EXCEPT !.reg = IF p.name = "reg" THEN p ELSE @,
                            !.device_type = IF p.name = "device_type" THEN p.value ELSE @]
    IN  IF open_nodes = <<>> THEN Conform(FALSE, <<>>, NoReg)
        ELSE Conform(PropertyConforms(p),
                     [open_nodes EXCEPT ![Len(open_nodes)] = node],
                     IF node.reg # NoReg /\ node.device_type = "memory"
                     THEN node.reg ELSE declared)

PropertyToken ==
    /\ TokenRead
    /\ \E p \in Properties :
        /\ ReadUpTo(IF PropertyFits(p) THEN Data + p.length
                    ELSE IF StructEnd - Token >= 8 THEN Data ELSE Token)
        /\ name_end' = IF PropertyFits(p) THEN NameReadEnd(p) ELSE 0
        /\ IF ~PropertyAccepted(p) THEN Panic("property")
           ELSE /\ AdvanceTo(AlignUp(Data + p.length))
                /\ address_cells' = AddressCells(p)
                /\ size_cells' = SizeCells(p)
                /\ current_node_device_type' = DeviceType(p)
                /\ current_node_reg' = Reg(p)
                /\ regions' = IF IsMemory(p)
                              THEN Regions(AddressCells(p), SizeCells(p), Reg(p))
                              ELSE regions
                /\ NoteProperty(p)
                /\ UNCHANGED <<node_depth, node_name_length,
                               end_tokens_encountered>>

-----------------------------------------------------------------------------
Nop == /\ TokenRead
       /\ ReadUpTo(Token)
       /\ AdvanceTo(Token)
       /\ name_end' = 0 /\ UNCHANGED <<parser_vars, history_vars>>

\* FDT_END: the rest of the block is not looked at.
End == /\ TokenRead
       /\ ReadUpTo(Token)
       /\ AdvanceTo(StructEnd)
       /\ end_tokens_encountered' = end_tokens_encountered + 1
       /\ name_end' = 0
       /\ UNCHANGED <<node_depth, node_name_length,
                      current_node_device_type, current_node_reg, address_cells,
                      size_cells, regions, history_vars>>

UnknownToken == /\ TokenRead
                /\ ReadUpTo(Token)
                /\ Panic("token")
                /\ name_end' = 0

\* The loop is left; nodes must balance and FDT_END must have been seen.
Finish == /\ pc = "walk" /\ StructEnd - dtb_cursor < 4
          /\ IF node_depth # 0 THEN Panic("balance")
             ELSE IF end_tokens_encountered # 1 THEN Panic("end")
             ELSE /\ pc' = "done"
                  /\ UNCHANGED <<why, header, reserved_regions_count,
                                 entries_written, dtb_cursor, parser_vars,
                                 history_vars>>
          /\ UNCHANGED <<read_end, name_end>>

Next == ParseHeader \/ Reserve \/ BeginNode \/ EndNode \/ PropertyToken \/ Nop
        \/ End \/ UnknownToken \/ Finish

Spec == Init /\ [][Next]_vars
FairSpec == Spec /\ WF_vars(Next)

-----------------------------------------------------------------------------
(* Properties.                                                             *)

\* The parser reads the header, the reservations and the structure block within
\* the blob, whatever the blob says of itself.
ReadsInBlob == pc # "header" /\ why # "header" => read_end <= header.total_size

\* The cursor never passes the end of the block: what every token checks before it
\* advances is enough, and the checks at the head of the loop never fail.
CursorInBounds == dtb_cursor <= StructEnd

\* In a blob that keeps to the format, what the parser remembers of the node it
\* last began is what the blob says of the innermost open node, for as long as that
\* node may still have properties; and nothing is declared without the root's cells.
ParserFollows ==
    conforming /\ pc # "panicked" =>
        /\ node_depth = Len(open_nodes)
        /\ \A i \in 1 .. Len(open_nodes) - 1 : open_nodes[i].has_child
        /\ open_nodes # <<>> /\ ~Top.has_child =>
              /\ node_name_length = 0 <=> Len(open_nodes) = 1
              /\ current_node_reg = Top.reg
              /\ current_node_device_type = "memory" <=> Top.device_type = "memory"
        /\ declared # NoReg => address_cells # 0 /\ size_cells # 0

\* The regions of a blob that keeps to the format are those its last memory node
\* declares, decoded with the root's cells: in whichever order device_type and reg
\* come, and nothing of one node is taken for another's.
RegionsAreDeclared ==
    conforming /\ pc # "panicked" =>
        regions = IF declared = NoReg THEN <<>>
                  ELSE Regions(address_cells, size_cells, declared)

\* What the parser stores stays in the arrays of HardwareInfo, the terminator of the
\* reservations included; and after them the count says how many there are: it counts
\* entries that were stored, and not the terminator.
WritesInHardwareInfo ==
    /\ entries_written <= Room
    /\ Len(regions) <= MaxRegions
    /\ pc \in {"walk", "done"} => /\ reserved_regions_count = header.reserved
                                  /\ entries_written = reserved_regions_count + 1

\* Parsing ends, for every blob.
ParsingEnds == <>(pc \in {"done", "panicked"})

\* String.h: string_compare_with_length compares two strings.  The type of a node
\* that has a reg is a string when it is compared, if the blob keeps to the format
\* and the node is not the root.
NullNeverCompared ==
    /\ pc = "walk" /\ conforming
    /\ Len(open_nodes) > 1 /\ current_node_reg # NoReg
    => current_node_device_type # NULL

\* "Guard against string table overflow": names are read within the strings block, if
\* the blob keeps to the format.
NamesInStrings ==
    pc = "walk" /\ conforming
        => name_end <= header.off_dt_strings + header.size_dt_strings

\* The kernel panics for lack of space only if space is lacking.
FullMapAccepted == why = "space" => header.reserved > Room
=============================================================================
