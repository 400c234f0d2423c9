-------------------------------- MODULE Mpu ---------------------------------
(***************************************************************************)
(* Memory protection.  Each partition has one region of memory.  One MPU   *)
(* region is programmed to it when a process of the partition gets the     *)
(* CPU, so that an unprivileged process reaches no other; and the kernel,  *)
(* which copies messages with privilege, checks the buffers it is given    *)
(* against the caller's region.  Addresses are 32-bit words: sums are      *)
(* taken modulo AddressLimit.                                              *)
(***************************************************************************)
EXTENDS PartitionTable

CONSTANTS
  AddressLimit,  \* 2^32
  RegionBase,    \* regions[p].base_address
  RegionSize,    \* regions[p].size_bytes
  Writable       \* the partitions whose region has access READ_WRITE

Address == 0 .. AddressLimit - 1

Region(p) == RegionBase[p] .. RegionBase[p] + RegionSize[p] - 1

\* The geometry that set_partition_region accepts: a size that is a power of
\* two, as the divisors of 2^32 are, and a base that is a multiple of it, so
\* that no region crosses the end of the address space.
GeometryValid(base, size) ==
  size > 0 /\ AddressLimit % size = 0 /\ base % size = 0

\* The linker script gives partitions disjoint regions.
ASSUME MpuAssumption ==
  /\ AddressLimit \in Nat \ {0}
  /\ RegionBase \in [Partition -> Address]
  /\ RegionSize \in [Partition -> Address]
  /\ \A p \in Partition : GeometryValid(RegionBase[p], RegionSize[p])
  /\ \A p, q \in Partition : p # q => Region(p) \cap Region(q) = {}
  /\ Writable \subseteq Partition

\* Whether the buffer is memory that the partition may write itself.
OwnsRange(p, address, size) ==
  LET end == (address + size) % AddressLimit
  IN  /\ p \in Writable /\ size > 0
      /\ end > address /\ address >= RegionBase[p]
      /\ end <= (RegionBase[p] + RegionSize[p]) % AddressLimit
=============================================================================
