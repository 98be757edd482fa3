----------------------------- MODULE MCFatImage -----------------------------
(***************************************************************************)
(* Small images: the limits of the FAT types, the sizes of a sector and of *)
(* a directory entry scaled down together.                                 *)
(***************************************************************************)
EXTENDS FatImage

Boot(clusters, perCluster, fatSectors, slots) ==
  [bytes_per_sector |-> 2, sectors_per_cluster |-> perCluster, reserved_sectors |-> 1,
   num_fats |-> 2, root_entries |-> slots, sectors_per_fat |-> fatSectors,
   total_sectors |-> 1 + 2 * fatSectors + slots + clusters * perCluster]

\* FAT12 volumes: one that ends where the search for free clusters does, one
\* with a cluster more, the largest there is, one that is shorter as the shipped
\* image is; and a shorter FAT16 volume.
MCBoots == {Boot(5, 1, 6, 6), Boot(6, 2, 6, 4), Boot(3, 1, 6, 5), Boot(7, 1, 10, 4)}

MCFiles ==
  {[name |-> "config", chunks |-> <<"arcane_config", ".yaml">>, short |-> "ARCANE~1", len |-> n] :
     n \in {0, 3, 4}}
  \cup {[name |-> "other", chunks |-> <<"arcane_other">>, short |-> "ARCANE~1", len |-> n] :
     n \in {1, 6}}

MCOld == [name |-> "old", chunks |-> <<>>, short |-> "OLD", len |-> 3]

MCSum(short) == IF short = "OLD" THEN 1 ELSE 2
=============================================================================
