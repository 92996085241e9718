------------------------------- MODULE MCLayout ------------------------------
(* Module Layout with a 6-bit machine word and the constants of boot.rs      *)
(* scaled to it.                                                            *)
EXTENDS Layout

MCWidths == {1, 2}

\* Memory below the minimum, the least and more of it, past the allocation
\* limit, past the RAM's place, and too much to convert to bytes.
MCHvfConfigs ==
  {[vcpus |-> 1, mib |-> m, strict |-> s] : m \in {2, 3, 8, 15, 16, 26, 40}, s \in BOOLEAN}
    \cup {[vcpus |-> v, mib |-> 3, strict |-> TRUE] : v \in {0, 3}}
MCCustomConfigs ==
  {[vcpus |-> 1, mib |-> 3, strict |-> TRUE], [vcpus |-> 1, mib |-> 3, strict |-> FALSE],
   [vcpus |-> 0, mib |-> 3, strict |-> TRUE], [vcpus |-> 1, mib |-> 40, strict |-> TRUE]}

MCHvfNeeds ==
  [devices : 0..3, hotplug : {None, [capacity |-> 4, alignment |-> 4],
                              [capacity |-> 8, alignment |-> 8]}]
MCCustomNeeds == [devices : 0..2, hotplug : {None, [capacity |-> 4, alignment |-> 4]}]

\* A kernel that fits, one with a text offset, one whose header says less than
\* its file, one that leaves the initramfs no room, and broken ones.
MCKernels ==
  {[valid |-> TRUE, offset |-> 0, size |-> 2, len |-> 1, initrd |-> 1],
   [valid |-> TRUE, offset |-> 2, size |-> 1, len |-> 1, initrd |-> 0],
   [valid |-> TRUE, offset |-> 0, size |-> 1, len |-> 3, initrd |-> 1],
   [valid |-> TRUE, offset |-> 0, size |-> 4, len |-> 1, initrd |-> 60],
   [valid |-> TRUE, offset |-> 1, size |-> 2, len |-> 1, initrd |-> 1],
   [valid |-> FALSE, offset |-> 0, size |-> 2, len |-> 1, initrd |-> 1],
   [valid |-> TRUE, offset |-> 0, size |-> 0, len |-> 1, initrd |-> 1]}

MCHosts == [kernel : MCKernels, bits : {0, 5, 6, 7}, vcpus : {2}]

MCStarts == [config : MCHvfConfigs, needs : MCHvfNeeds, host : MCHosts]
  \cup [config : MCCustomConfigs, needs : MCCustomNeeds, host : {None}]

\* Empty, too small for a device, next to each other, larger than the RAM left,
\* past the ports' end and past the end of the word.
MCRegions ==
  {[space |-> "Mmio", address |-> a, size |-> z, irq |-> 1] : a \in {0, 3, 4, 8}, z \in {2, 4}}
    \cup {[space |-> r[1], address |-> r[2], size |-> r[3], irq |-> 1] :
            r \in {<<"Mmio", 0, 0>>, <<"Mmio", 2, 1>>, <<"Mmio", 0, 6>>, <<"Mmio", 0, 40>>,
                   <<"Mmio", 60, 2>>, <<"Mmio", 60, 4>>,
                   <<"Port", 3, 2>>, <<"Port", 14, 2>>, <<"Port", 14, 4>>}}

MCAccesses ==
  [space : {"Mmio"}, address : {0, 3, 4, 5, 7, 8, 9, 61}, width : {1, 2, 3}, write : BOOLEAN]
    \cup [space : {"Port"}, address : {3, 4, 15}, width : {1, 2}, write : {TRUE}]

MCRamRegions == 0..2
MCRedistSizes == {2, 5}
MCSpiRanges == {1..7, 2..7, 1..3}
MCDtbSizes == {1, 2, 3}
==============================================================================
