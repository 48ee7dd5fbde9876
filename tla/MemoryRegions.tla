---------------------------- MODULE MemoryRegions ----------------------------
(***************************************************************************)
(* physical_memory_regions of kernel/Memory/Memory.c: the regions a `reg`  *)
(* property describes.  A property is its length in bytes and, as far as   *)
(* they are looked at, its 32-bit cells; a cell has CellValues values.     *)
(***************************************************************************)
EXTENDS Integers, Sequences

CONSTANTS
    CellValues,  \* 2^32
    MaxRegions   \* entries of the array that receives the regions: 16

ASSUME RegionAssumption == /\ CellValues \in Nat \ {0, 1}
                           /\ MaxRegions \in Nat \ {0}

UINT64_MAX == CellValues * CellValues - 1

size_of_one_region_spec(address_cells, size_cells) ==
    4 * (address_cells + size_cells)

\* The checks on the sizes, in bytes and cells.
SizesAccepted(address_cells, size_cells, reg_size) ==
    /\ address_cells \in 1..2 /\ size_cells \in 1..2
    /\ address_cells <= reg_size /\ size_cells <= reg_size
    /\ reg_size % size_of_one_region_spec(address_cells, size_cells) = 0
    /\ reg_size \div size_of_one_region_spec(address_cells, size_cells) <= MaxRegions

\* The big-endian number in n cells, the first of them the k-th.
Number(cells, k, n) == IF n = 2 THEN cells[k] * CellValues + cells[k + 1]
                                ELSE cells[k]

\* What reg describes, an address and a size after the other.
Regions(address_cells, size_cells, reg) ==
    LET n == address_cells + size_cells
    IN  [i \in 1 .. reg.length \div (4 * n) |->
            [base_address |-> Number(reg.cells, (i - 1) * n + 1, address_cells),
             size |-> Number(reg.cells, (i - 1) * n + address_cells + 1, size_cells)]]

\* A region is not empty and does not wrap around the address space.
RegionAccepted(region) ==
    region.size # 0 /\ region.base_address <= UINT64_MAX - region.size

\* The function returns, rather than panics.
RegAccepted(address_cells, size_cells, reg) ==
    /\ SizesAccepted(address_cells, size_cells, reg.length)
    /\ LET regions == Regions(address_cells, size_cells, reg)
       IN  \A i \in DOMAIN regions : RegionAccepted(regions[i])
=============================================================================
