------------------------------ MODULE MCFiles ------------------------------
(***************************************************************************)
(* A volume of ten clusters.  The root folder is two clusters long and    *)
(* has a file of three clusters, one without any and a picture, a folder   *)
(* with a file of the same name and a read-only one, and a folder with a   *)
(* name of one character.  The picture and the folder are hidden; files    *)
(* have dates, the picture and folders have none.                          *)
(***************************************************************************)
EXTENDS Files, TLC

CONSTANTS s1, s2, s3, none, zero, old1, old2, old3, old4, picture, new1, new2

MCClusters == 2 .. 11
MCSectors  == {0} \cup MCClusters
MCBuffers  == -2 .. 3
MCEnd      == 15

MCNames == {"F.TXT", "E.TXT", "R.TXT", "G.PNG", "DOCS", "S"}

File(name, first, size) ==
  [name |-> name, folder |-> FALSE, readOnly |-> name = "R.TXT",
   hidden |-> name \in {"G.PNG", "DOCS"}, text |-> name # "G.PNG",
   dated |-> name \notin {"G.PNG", "DOCS", "S"}, first |-> first, size |-> size]

Folder(name, first) == [File(name, first, 0) EXCEPT !.folder = TRUE]

Dir(a, b, c) == s1 :> a @@ s2 :> b @@ s3 :> c

MCImages ==
  {0 :> [c \in Clusters |-> CASE c = 2 -> 3 [] c = 4 -> 5 [] c = 5 -> 11 [] OTHER -> EndOfChain]
   @@ 2 :> Dir(File("F.TXT", 4, 3), File("E.TXT", 0, 0), File("G.PNG", 7, 1))
   @@ 3 :> Dir(Folder("DOCS", 6), none, Folder("S", 10))
   @@ 6 :> Dir(none, File("R.TXT", 9, 1), File("F.TXT", 8, 1))
   @@ 4 :> old1 @@ 5 :> old2 @@ 7 :> picture @@ 8 :> old3 @@ 9 :> old4 @@ 11 :> old1
   @@ 10 :> Dir(none, none, none)}

Lower(name) == [name |-> name, upper |-> FALSE]
Upper(name) == [name |-> name, upper |-> TRUE]

MCPaths ==
  {<<>>, <<Lower("F.TXT")>>, <<Upper("F.TXT")>>, <<Lower("E.TXT")>>, <<Lower("G.PNG")>>,
   <<Lower("DOCS")>>, <<Upper("DOCS"), Lower("F.TXT")>>, <<Lower("DOCS"), Lower("R.TXT")>>,
   <<Lower("S"), Lower("F.TXT")>>}

MCTexts    == {<<new1, new2>>}
MCContents == {zero, old1, old2, old3, old4, picture, new1, new2}
                \cup Tables \cup Directories
=============================================================================
