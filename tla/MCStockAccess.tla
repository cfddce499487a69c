--------------------------- MODULE MCStockAccess ---------------------------
EXTENDS StockAccess

\* The references and the canonical pair, at the borders of every window and of
\* the drift, and a rootfs size off the granularity.
Images == {r[2] + d : r \in Reference, d \in {-8193, -8192, -128, 0, 8192, 8193}}
Partitions == {r[3] + d : r \in Reference, d \in {-65536, 0, 65536, 131072, 1}}
Pairs == (Images \X Partitions) \cup {Canonical, <<0, 0>>}

MCLayouts == {[master |-> p, slave |-> Canonical] : p \in Pairs}
             \cup {[master |-> Canonical, slave |-> p] : p \in Pairs}
             \cup {[master |-> p, slave |-> p] : p \in {<<3864282, 30146560>>}}
=============================================================================
