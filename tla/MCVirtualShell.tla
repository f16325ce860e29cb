--------------------------- MODULE MCVirtualShell ---------------------------
(* A small instance of VirtualShell for TLC: a utility on $PATH with an    *)
(* argument that cannot be passed on, one with a slash in its name that is *)
(* never there, two built-ins, of which one needs a file, and a function.  *)
EXTENDS VirtualShell

MCBuiltinType == [w \in {"set", "test"} |-> IF w = "set" THEN "Special" ELSE "NonIntrinsic"]
MCCommand == {<<"ls", "nul", "bin">>, <<"./a">>, <<"nul">>, <<"set">>, <<"test">>, <<"fun">>}

(* $PATH as a string and as an array, which may have a part with a colon or*)
(* one that cannot be passed on                                            *)
MCVariable == {[value |-> Scalar(<<"usr", Colon, "bin">>), isExported |-> TRUE],
               [value |-> Array(<<<<"usr", Colon, "bin">>, <<"bin">>>>), isExported |-> TRUE],
               [value |-> Array(<<<<"nul">>, <<"bin">>>>), isExported |-> TRUE]}

File(permissions, native) == [permissions |-> permissions, isNativeExecutable |-> native]
MCINode == {File(8, TRUE), File(420, FALSE)}
MCPath == {[dir |-> <<"bin">>, name |-> "ls"], [dir |-> <<"bin">>, name |-> "test"],
           [dir |-> <<"usr", Colon, "bin">>, name |-> "ls"]}
=============================================================================
