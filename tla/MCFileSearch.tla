---------------------------- MODULE MCFileSearch ----------------------------
(* FileSearch for TLC.  The pattern takes every value of up to four         *)
(* characters over a, b and + that getopt.c lets through; the disk has one  *)
(* file whose name is any of up to four characters, at three depths, and    *)
(* directories before, between and after it.                                *)
EXTENDS FileSearch

Strings(S, n) == UNION {[1..k -> S] : k \in 1..n}
MCTop == <<<<"w">>>>
Sub == Append(MCTop, <<"a", "b">>)
Deep == Append(Sub, <<"a", "a">>)

File(name, perm) == [name |-> name, type |-> "f", perm |-> perm, size |-> 1, links |-> 1]
Dir(name) == [name |-> name, type |-> "d", perm |-> "rwx", size |-> 2, links |-> 2]

MCNames == Strings({"a", "b"}, 4) \ {<<"a", "b">>, <<"a", "a">>}
MCDisks ==
  {(MCTop :> <<File(n, "rw-"), Dir(Last(Sub))>>
      @@ Sub :> <<Dir(Last(Deep)), File(n, "r--")>> @@ Deep :> <<File(n, "rw-")>>)
     : n \in MCNames \cup {<<"A">>, <<"A", "a", "b">>, <<"a", "+">>}}
  \cup {(MCTop :> <<Dir(Last(Sub)), File(<<"b">>, "rw-")>>
           @@ Sub :> <<File(<<"a">>, "rw-"), Dir(Last(Deep)), File(<<"b">>, "r--")>>
           @@ Deep :> <<>>)}

MCPatterns == {<<>>} \cup {r \in Strings({"a", "b", "+"}, 4) : Head(r) # "+"}
MCCriteria ==
  {("name" :> r) : r \in MCPatterns}
  \cup {("type" :> "d"), ("type" :> "f" @@ "perm" :> "r--"), ("size" :> 1 @@ "links" :> 1)}
MCMayBeClosed == {Sub, Deep}
=============================================================================
