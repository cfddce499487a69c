--------------------------- MODULE MCStockInstall ---------------------------
EXTENDS StockInstall
=============================================================================
