------------------------------ MODULE MCShell ------------------------------
(* A small instance of Shell for TLC: the two built-ins of the program, a  *)
(* built-in of the type that needs a file, a function, a utility on $PATH  *)
(* and one with a slash in its name.                                       *)
EXTENDS Shell

MCName == {"alias", "return", "test", "fun", "ls", "./a"}
MCBuiltinType == [n \in {"alias", "return", "test"} |->
                    CASE n = "alias" -> "Intrinsic"
                      [] n = "return" -> "Special"
                      [] n = "test" -> "NonIntrinsic"]
MCPath == <<"bin", "usr">>
MCFile == {<<"bin", "ls">>, <<"usr", "ls">>, <<"usr", "test">>}

Plain(name) == [name |-> name, operands |-> <<>>, defines |-> <<>>]
Return(n) == [name |-> "return", defines |-> <<>>,
              operands |-> <<[isNumber |-> FALSE, value |-> 0],
                             [isNumber |-> TRUE, value |-> n]>>]
Alias(name, replacement) ==
  [name |-> "alias", operands |-> <<>>,
   defines |-> <<[name |-> name, replacement |-> replacement]>>]

(* A line of commands, each an item of its own                             *)
CommandLine(commands, end) == [items |-> [i \in DOMAIN commands |-> <<<<commands[i]>>>>],
                               end |-> end]

(* Two utilities on a line; a line that goes on; an alias for the name of  *)
(* a function; and a syntax error.                                         *)
MCLine == {CommandLine(<<Plain("ls"), Plain("./a")>>, "complete"),
           CommandLine(<<Plain("fun")>>, "open"),
           CommandLine(<<Alias("fun", "test"), Return(300)>>, "complete"),
           CommandLine(<<Plain("ls")>>, "error")}
=============================================================================
