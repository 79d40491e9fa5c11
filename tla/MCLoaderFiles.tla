---------------------------- MODULE MCLoaderFiles ----------------------------
(***************************************************************************)
(* TLC instance of LoaderFiles: files of one to three lines, and those a   *)
(* package puts in their place, which may be the first again.              *)
(***************************************************************************)
EXTENDS LoaderFiles

\* The default is set twice, so that it shows which line is updated; an entry
\* has a comment, a field the daemon does not know and no title.
MCInstalled ==
  [t \in Targets |->
     CASE t = "loader.conf" ->
            {<<Line("timeout", "3"), Line("default", "b"), Line("default", "c")>>}
       [] t = "entry" -> {<<Line("linux", "k"), Line("#", "note"), Line("efi", "x")>>}
       [] OTHER -> {<<Line("param", "rw"), Line("param", "p"), Line("param", "p")>>}]

MCEdit ==
  [t \in Targets |->
     CASE t = "loader.conf" -> {<<Line("timeout", "3")>>} \union MCInstalled[t]
       [] t = "entry" -> {<<Line("linux", NoText)>>, <<Line("linux", "l")>>}
       [] OTHER -> {<<Line("param", "q")>>}]
=============================================================================
