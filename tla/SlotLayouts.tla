---------------------------- MODULE SlotLayouts ----------------------------
(* mtd2..mtd5, the two kernel/rootfs slots of the stock firmware, are the   *)
(* only sizes that tell an XG-040G-MD from an XG-040G-MF.  The PC           *)
(* (master.py) and the launcher on the board (stock-launcher.sh.in) each    *)
(* classify them with a table of their own.                                 *)
EXTENDS Integers, FiniteSets

Families == {"md", "mf"}

\* The published sizes, kernel image and rootfs partition of each slot.
Slots == [master : Nat \X Nat, slave : Nat \X Nat]

\* STOCK_SLOT_CANONICAL_PAIR: kernel image, rootfs partition.
Canonical == <<4718592, 37748736>>
ImageTolerance == 8192
Granularity == 65536
PartitionTolerance == Granularity
\* STOCK_SLOT_REVISION_REFERENCE of the PC.
Reference == {<<"md", 3864282, 30146560>>, <<"mf", 3894464, 30408704>>,
              <<"mf", 3894592, 30474240>>}
\* SLOT_LAYOUTS and MF_SLOT_LAYOUTS: every reference, in both orientations.
ExactLayouts == {<<r[1], [master |-> <<r[2], r[3]>>, slave |-> Canonical]>> : r \in Reference}
                \cup {<<r[1], [master |-> Canonical, slave |-> <<r[2], r[3]>>]>> : r \in Reference}

Distance(x, y) == IF x >= y THEN x - y ELSE y - x

\* A pair that could be a kernel and its rootfs at all.
Plausible(pair) == pair[1] > 0 /\ pair[2] > pair[1] /\ pair[2] % Granularity = 0

Near(pair, r) ==
  /\ Distance(pair[1], r[2]) <= ImageTolerance
  /\ Distance(pair[2], r[3]) <= PartitionTolerance

\* The only family in whose window the pair lies.
WindowFamily(pair) ==
  LET matched == {r[1] : r \in {x \in Reference : Plausible(pair) /\ Near(pair, x)}}
  IN  IF Cardinality(matched) = 1 THEN CHOOSE f \in matched : TRUE ELSE "unknown"

\* The pair that moves between revisions, opposite the canonical one; <<0, 0>>
\* when neither slot is canonical.
RevisionPair(s) == IF s.slave = Canonical THEN s.master
                   ELSE IF s.master = Canonical THEN s.slave ELSE <<0, 0>>

\* _stock_slot_match of the PC: an exact layout, or else the window.
PcFamily(s) ==
  IF \E x \in ExactLayouts : x[2] = s
  THEN (CHOOSE x \in ExactLayouts : x[2] = s)[1]
  ELSE WindowFamily(RevisionPair(s))

\* (Mutant of LauncherNear: the rootfs slot has to match exactly.)
LauncherNearExact(i, p, ri, rp) == Distance(i, ri) <= 8192 /\ p = rp
LauncherNear(i, p, ri, rp) == Distance(i, ri) <= 8192 /\ Distance(p, rp) <= 65536
\* revision_pair_family of the launcher, over its own table.
LauncherMatches(f, i, p) ==
  /\ i > 0 /\ p > i /\ p % 65536 = 0
  /\ \/ f = "md" /\ LauncherNear(i, p, 3864282, 30146560)
     \/ f = "mf" /\ \/ LauncherNear(i, p, 3894464, 30408704)
                    \/ LauncherNear(i, p, 3894592, 30474240)
\* verify_stock_slots: the launcher was built for one family.
LauncherAccepts(f, s) ==
  LET pair == RevisionPair(s)
  IN  {g \in Families : LauncherMatches(g, pair[1], pair[2])} = {f}

\* The drift seen on real boards: 0x80 in the kernel, 0x10000 in the rootfs.
Genuine(f, s) ==
  \E r \in Reference :
    /\ r[1] = f
    /\ Distance(RevisionPair(s)[1], r[2]) <= 128
    /\ Distance(RevisionPair(s)[2], r[3]) <= 65536
=============================================================================
