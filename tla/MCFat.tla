-------------------------------- MODULE MCFat --------------------------------
(* Cards of six clusters of two sectors, FAT16 or FAT32, with a partition  *)
(* table or without, one FAT or two; some are nearly full, one has a full  *)
(* root directory; on some of them files are open and half written.        *)
EXTENDS Fat
A == <<"A">>
B == <<"B">>
D == <<"D">>
DA == <<"D", "A">>
DE == <<"D", "E">>
E1 == <<"E">>
C == <<"C">>
Item(is, p, b) == [is |-> is, path |-> p, b |-> b]
Job(p, mode, b) == [path |-> p, mode |-> mode, b |-> b]
RW == {"R", "W", "OPEN"}
Card(type, sfd, n, items, opened) ==
  [type |-> type, sfd |-> sfd, n_fats |-> n, items |-> items, opened |-> opened]
MCVolumes == {
  Card("FAT16", TRUE, 1, <<Item("dir", D, <<>>), Item("file", DA, <<1, 2, 3>>)>>, <<>>),
  Card("FAT16", TRUE, 1, <<Item("dir", D, <<>>), Item("file", DA, <<1, 2, 3, 3, 2>>)>>,
       <<Job(A, {"W", "ALWAYS"}, <<1>>), Job(DA, RW, <<1, 1, 1>>)>>),
  Card("FAT32", FALSE, 2,
       <<Item("file", A, <<3, 1, 3, 2, 3, 1, 3, 2, 3>>), Item("file", B, <<2, 2>>)>>,
       <<Job(B, RW, <<1, 1, 1>>), Job(A, RW, <<1, 1, 1>>)>>),
  Card("FAT32", FALSE, 1, <<Item("dir", D, <<>>), Item("dir", E1, <<>>),
       Item("file", A, <<1, 3>>), Item("file", B, <<>>)>>, <<>>),
  Card("FAT32", TRUE, 1, <<Item("file", A, <<1, 3>>), Item("dir", D, <<>>)>>,
       <<Job(DA, {"W", "ALWAYS"}, <<1, 2, 3, 1, 2>>), Job(B, RW, <<2, 1>>)>>)}
MCKnown == {A, B, C, D, DA, E1, DE}
MCArgs == {A, <<"/">> \o DA}
MCNewDirs == {C}
MCMoves == {<<A, C>>, <<E1, DE>>}
MCModes == {{"R"}, RW, {"W", "ALWAYS"}}
MCData == {<<1>>, <<2, 1, 2, 1, 2>>}
=============================================================================
