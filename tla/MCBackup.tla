------------------------------ MODULE MCBackup ------------------------------
(***************************************************************************)
(* A sale's rows in two tables, the details dumped before the header.      *)
(***************************************************************************)
EXTENDS Backup

McTables == <<"sale_items", "sales">>
=============================================================================
