---------------------------- MODULE MCDeviceTree -----------------------------
(***************************************************************************)
(* DeviceTree for TLC: cells of two bits; headers that are right,          *)
(* misaligned, or wrong in each way the parser looks for; properties with  *)
(* a region, two regions, and one more than there is room for.             *)
(***************************************************************************)
EXTENDS DeviceTree

CONSTANT Size  \* bytes of the structure block

\* dtc's order: header, reservations, structure block, strings.
MCNameOffset == [address_cells |-> 0, size_cells |-> 15, device_type |-> 27,
                 other |-> 39, reg |-> 45]

Good == [magic_ok |-> TRUE, skew |-> 0, reserved |-> 1, total_size |-> 121 + Size,
         off_mem_rsvmap |-> 40, off_dt_struct |-> 72, size_dt_struct |-> Size,
         off_dt_strings |-> 72 + Size, size_dt_strings |-> 49]

\* One blob whose header is right.
MCGoodHeader == {Good}

MCHeaders ==
    {Good,
     [Good EXCEPT !.reserved = 0, !.skew = 2, !.size_dt_struct = 38],
     [Good EXCEPT !.size_dt_struct = 31],
     [Good EXCEPT !.reserved = 2],
     [Good EXCEPT !.reserved = 3, !.size_dt_struct = 12],
     [Good EXCEPT !.size_dt_strings = 45, !.size_dt_struct = 60],
     [Good EXCEPT !.magic_ok = FALSE],
     [Good EXCEPT !.total_size = 39],
     [Good EXCEPT !.off_mem_rsvmap = 121 + Size],
     [Good EXCEPT !.off_mem_rsvmap = 100 + Size],
     [Good EXCEPT !.size_dt_struct = Size + 50],
     [Good EXCEPT !.size_dt_strings = 50]}

Prop(name, length, value) == [name |-> name, length |-> length, value |-> value]
RegOf(length, cells) == [name |-> "reg", length |-> length, cells |-> cells]

MCProperties ==
    {Prop("address_cells", 4, 1), Prop("address_cells", 4, 2),
     Prop("address_cells", 8, 1), Prop("size_cells", 4, 1),
     Prop("size_cells", 4, 3), Prop("device_type", 7, "memory"),
     Prop("device_type", 4, "cpu"), Prop("other", 5, ""), Prop("other", 1000, ""),
     RegOf(8, <<1, 2>>), RegOf(8, <<2, 0>>), RegOf(12, <<3, 3, 1>>),
     RegOf(12, <<0, 3, 1>>), RegOf(16, <<1, 2, 3, 1>>),
     RegOf(24, <<0, 1, 1, 1, 2, 1>>)}
=============================================================================
