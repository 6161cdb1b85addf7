-------------------------------- MODULE MCFs --------------------------------
(* Small instances of the file system calls: see the configuration files. *)
EXTENDS Fs, TLC

\* The root, and files in it and in one directory.
Flat == {<<>>, <<"a">>, <<"b">>, <<"a", "b">>}
\* One process makes and opens files and directories, the other links and enters
\* them; both remove them.
Roles == [p \in Proc |->
  IF p = 1 THEN {"create", "unlink"} \X {<<"a">>, <<"a", "b">>} \cup
                {<<"mkdir", <<"a">>>>, <<"open", <<"a">>>>}
  ELSE {"link", "unlink"} \X {<<"a">>, <<"b">>} \cup
       {<<"mkdir", <<"a">>>>, <<"chdir", <<"a">>>>, <<"mknod", <<"b">>>>, <<"unlink", <<>>>>}]

\* One process, that leaves a directory by "..".
Up == {<<"a">>, <<"a", "b">>, <<"..">>}
All == [p \in Proc |-> {"mkdir", "unlink", "chdir"} \X Paths]
=============================================================================
