------------------------------ MODULE FileSearch ------------------------------
(***************************************************************************)
(* The file search of HWs/HW1/main.c: traverse_filesystem walks a          *)
(* directory, adds what validate accepts to a tree of names (add), and     *)
(* main prints the tree unless the walk of the top directory returned -1.  *)
(* The file-name pattern is matched by hand (is_valid_regex).              *)
(*                                                                         *)
(* A name is a sequence of characters, a path a sequence of names.  The    *)
(* directory stream of every directory on the way is on the call stack.    *)
(***************************************************************************)
EXTENDS Integers, FiniteSets, Sequences, SequencesExt

CONSTANTS Top,         \* the path searched (-w)
          Disks,       \* file systems: a sequence of entries for each directory's path
          Criteria,    \* the options given: a set of records, see validate
          MayBeClosed, \* paths of directories that may not be open to the user
          MaxSig,      \* bound: SIGINTs
          MaxVanish    \* bound: entries that are removed before they are looked at or opened

Names == Seq(STRING)
Entries == [name : Names, type : STRING, perm : STRING, size : Nat, links : Nat]

(* A file system: the names in a directory differ, an entry is a directory *)
(* if its path is one, and the directories on the way to one are there.    *)
IsFileSystem(D) ==
  /\ Top \in DOMAIN D
  /\ \A d \in DOMAIN D :
       /\ d \in Seq(Names) /\ IsPrefix(Top, d) /\ D[d] \in Seq(Entries)
       /\ \A i, j \in DOMAIN D[d] : D[d][i].name = D[d][j].name => i = j
       /\ \A i \in DOMAIN D[d] : D[d][i].type = "d" <=> Append(d, D[d][i].name) \in DOMAIN D
       /\ \A n \in Len(Top)..Len(d) - 1 :
            /\ SubSeq(d, 1, n) \in DOMAIN D
            /\ \E i \in DOMAIN D[SubSeq(d, 1, n)] : D[SubSeq(d, 1, n)][i].name = d[n + 1]

(* getopt.c lets no pattern through that begins with a +.                  *)
IsPattern(r) == r \in Seq(STRING) /\ (r # <<>> => r[1] # "+")

(* The path searched is not the root directory itself (-w /).              *)
ASSUME SearchAssumption ==
  /\ Top # <<>> /\ MaxSig \in Nat /\ MaxVanish \in Nat
  /\ \A D \in Disks : IsFileSystem(D)
  /\ \A c \in Criteria : "name" \in DOMAIN c => IsPattern(c.name)

-----------------------------------------------------------------------------
(* The pattern.                                                            *)

(* Characters compare without regard to case.                              *)
Lower(c) == IF c = "A" THEN "a" ELSE c
is_char_equal(x, y) == Lower(x) = Lower(y)

(* How many characters of the pattern, from the j-th, equal c.             *)
Repeats(c, r, j) ==
  CHOOSE k \in 0..Len(r) + 1 - j :
    /\ \A l \in j..j + k - 1 : is_char_equal(r[l], c)
    /\ j + k > Len(r) \/ ~is_char_equal(r[j + k], c)

(* The loop of is_valid_regex, at the i-th character of the name and the   *)
(* j-th of the pattern.  prev, the character matched last, is but for its  *)
(* case the one before i; n is how many a + has taken, which the           *)
(* characters after the + in the pattern take back.                        *)
BadEnough(n, k) == TRUE                          \* taken back whether they are there or not
Enough(n, k) == n >= k
is_valid_regex(f, r) ==
  LET loop[s \in (1..Len(f) + 1) \X (1..Len(r) + 1) \X Int] ==
        LET i == s[1]   j == s[2]   n == s[3]
            Equal(c) == i <= Len(f) /\ is_char_equal(f[i], c)
            k == Repeats(f[i - 1], r, j + 1)
        IN  IF j > Len(r) THEN i > Len(f)
            ELSE IF Equal(r[j]) THEN loop[<<i + 1, j + 1, 0>>]
            ELSE IF r[j] # "+" THEN FALSE
            ELSE IF Equal(f[i - 1]) THEN loop[<<i + 1, j, n + 1>>]
            ELSE IF Enough(n, k) THEN loop[<<i, j + 1 + k, n - k>>] ELSE FALSE
  IN  loop[<<1, 1, 0>>]

(* What the pattern means: the characters of the name stand for the        *)
(* letters of the pattern, in their order and leaving none out, and only   *)
(* for one with a + after it may several of them stand.                    *)
Letters(r) == {j \in DOMAIN r : r[j] # "+"}
Repeated(r, j) == j < Len(r) /\ r[j + 1] = "+"
Accepts(f, r) ==
  \E m \in [DOMAIN f -> Letters(r)] :
    /\ \A i \in DOMAIN f : is_char_equal(f[i], r[m[i]])
    /\ \A j \in Letters(r) : \E i \in DOMAIN f : m[i] = j
    /\ \A i, k \in DOMAIN f : i < k => m[i] < m[k] \/ (m[i] = m[k] /\ Repeated(r, m[i]))

-----------------------------------------------------------------------------
VARIABLES
  disk, closed,  \* the file system, and the directories opendir may not open
  opts,          \* the criteria
  stack,         \* the calls of traverse_filesystem, the innermost last
  errno,
  curSignal,
  kids,          \* the tree: kids[p] is the list of names below path p
  pc,            \* "call", "walk", and in the end "printed" or "failed"
  called,        \* the directory traverse_filesystem is called with
  vanished,      \* entries that were gone when lstat or opendir came to them
  skipped        \* directories whose walk was given up half way

vars == <<disk, closed, opts, stack, errno, curSignal, kids, pc, called, vanished, skipped>>
input == <<disk, closed, opts>>

Dirs == DOMAIN disk

Init ==
  /\ disk \in Disks /\ closed \in SUBSET (MayBeClosed \cap DOMAIN disk) /\ opts \in Criteria
  /\ stack = <<>> /\ errno = "ok" /\ curSignal = 0
  /\ kids = [p \in UNION {Prefixes(d) : d \in DOMAIN disk} |-> <<>>]
  /\ pc = "call" /\ called = Top
  /\ vanished = {} /\ skipped = {}

(* An entry is accepted if it has what every option given asks for.  The   *)
(* test of the permissions (L224) accepts the files that differ.           *)
Given(o) == o \in DOMAIN opts
Validate(e) ==
  /\ Given("name") => is_valid_regex(e.name, opts.name)
  /\ Given("type") => e.type = opts.type
  /\ Given("perm") => e.perm # opts.perm
  /\ Given("size") => e.size = opts.size
  /\ Given("links") => e.links = opts.links

(* add: every name on the path that is not yet in the list of its siblings *)
(* comes at its end.                                                       *)
BadPresent(name, list) == list # <<>> /\ name \in ToSet(Tail(list))
Present(name, list) == name \in ToSet(list)
Placed(name, list) == Append(list, name)
BadVisited(path) ==                      \* a new name without what comes below it
  {p \in DOMAIN kids : /\ IsStrictPrefix(p, path)
                       /\ \A q \in Prefixes(p) \ {p} : path[Len(q) + 1] \in ToSet(kids[q])}
Visited(path) == {p \in DOMAIN kids : IsStrictPrefix(p, path)}
Added(path) ==
  [p \in DOMAIN kids |->
     IF p \in Visited(path) /\ ~Present(path[Len(p) + 1], kids[p])
     THEN Placed(path[Len(p) + 1], kids[p]) ELSE kids[p]]

Frame == Last(stack)
Callers == Front(stack)
Entry == disk[Frame.dir][Frame.next]
PathOf(e) == Append(Frame.dir, e.name)

(* A call returns: the caller does not look at what (L189-190), but main   *)
(* does (L62).                                                             *)
Ignored == TRUE
Returns(rest, ret) ==
  IF rest = <<>> THEN /\ stack' = <<>> /\ pc' = IF ret = 0 THEN "printed" ELSE "failed"
  ELSE IF ret = 0 \/ Ignored THEN stack' = rest /\ pc' = "walk"
  ELSE stack' = <<>> /\ pc' = "failed"

(* opendir.                                                                *)
Call ==
  /\ pc = "call"
  /\ IF called \in closed
       THEN /\ errno' = "EACCES" /\ Returns(stack, -1) /\ skipped' = skipped \cup {called}
       ELSE /\ stack' = Append(stack, [dir |-> called, next |-> 1, save |-> errno])
            /\ pc' = "walk" /\ UNCHANGED <<errno, skipped>>
  /\ UNCHANGED <<input, curSignal, kids, called, vanished>>

(* opendir fails because the directory has been removed since lstat; any   *)
(* other failure of it, no descriptor being left for one, does the same.   *)
CallVanishes ==
  /\ pc = "call" /\ Cardinality(vanished) < MaxVanish
  /\ errno' = "ENOENT" /\ vanished' = vanished \cup {called}
  /\ skipped' = skipped \cup {called}
  /\ Returns(stack, -1)
  /\ UNCHANGED <<input, curSignal, kids, called>>

More == Frame.next <= Len(disk[Frame.dir])

(* lstat fails on an entry that has been removed meanwhile.                *)
Vanish ==
  /\ pc = "walk" /\ More /\ Cardinality(vanished) < MaxVanish
  /\ errno' = "ENOENT" /\ vanished' = vanished \cup {PathOf(Entry)}
  /\ skipped' = skipped \cup {Frame.dir}
  /\ Returns(Callers, -1)
  /\ UNCHANGED <<input, curSignal, kids, called>>

IsDir(e) == e.type = "d"
BadAfter(n) == n                          \* continue with the same entry
After(n) == n + 1

(* One turn of the loop; the signal is tested once the entry is in the     *)
(* tree and before the directory it may be is walked.                      *)
Turn ==
  /\ pc = "walk" /\ More
  /\ kids' = IF Validate(Entry) THEN Added(PathOf(Entry)) ELSE kids
  /\ IF curSignal > 0
       THEN /\ Returns(Callers, -1) /\ skipped' = skipped \cup {Frame.dir}
            /\ UNCHANGED called
       ELSE /\ stack' = Append(Callers, [Frame EXCEPT !.next = After(@)])
            /\ IF IsDir(Entry) THEN pc' = "call" /\ called' = PathOf(Entry)
               ELSE UNCHANGED <<pc, called>>
            /\ UNCHANGED skipped
  /\ UNCHANGED <<input, errno, curSignal, vanished>>

(* The end of the directory.  errno differs if anything below has failed,  *)
(* and only being kept out of a directory is forgiven.                     *)
Failed(save) == save # errno /\ errno # "EACCES"
EndOfDir ==
  /\ pc = "walk" /\ ~More
  /\ Returns(Callers, IF Failed(Frame.save) THEN -1 ELSE 0)
  /\ UNCHANGED <<input, errno, curSignal, kids, called, vanished, skipped>>

Sigint ==
  /\ pc \in {"call", "walk"} /\ curSignal < MaxSig /\ curSignal' = curSignal + 1
  /\ UNCHANGED <<input, stack, errno, kids, pc, called, vanished, skipped>>

Walk == Call \/ Turn \/ EndOfDir
Next == Walk \/ CallVanishes \/ Vanish \/ Sigint
Spec == Init /\ [][Next]_vars /\ WF_vars(Walk)

-----------------------------------------------------------------------------
TypeOK ==
  /\ \A i \in DOMAIN stack : stack[i].dir \in Dirs /\ stack[i].next \in 1..Len(disk[stack[i].dir]) + 1
  /\ errno \in {"ok", "EACCES", "ENOENT"} /\ curSignal \in 0..MaxSig
  /\ pc \in {"call", "walk", "printed", "failed"} /\ called \in Dirs
  /\ \A p \in DOMAIN kids : \A i \in DOMAIN kids[p] : \E d \in Dirs :
       IsPrefix(Append(p, kids[p][i]), d) \/ d = p
  /\ skipped \subseteq Dirs

Below(d) == {Append(d, disk[d][i].name) : i \in DOMAIN disk[d]}
Files == UNION {Below(d) : d \in {d \in Dirs : IsPrefix(Top, d)}}
EntryAt(p) == CHOOSE e \in ToSet(disk[Front(p)]) : e.name = Last(p)
Accepted == {p \in Files : Validate(EntryAt(p))}
Nodes == UNION {{Append(p, kids[p][i]) : i \in DOMAIN kids[p]} : p \in DOMAIN kids}

(* The hand-written matcher, with its two indices and its counter of       *)
(* characters taken back (L303-327), says what the pattern means, for all  *)
(* patterns getopt.c lets through and all names on the disk without a +,   *)
(* which would be matched as a character like any other (L304).            *)
PatternAgrees ==
  Given("name") =>
    \A p \in Files :
      "+" \notin ToSet(Last(p)) => (is_valid_regex(Last(p), opts.name) <=> Accepts(Last(p), opts.name))

(* Every name in the tree leads to a file that is wanted, and no name      *)
(* stands twice in a list of siblings, however the directories are nested. *)
TreeIsRight ==
  /\ \A q \in Nodes : \E p \in Accepted : IsPrefix(q, p)
  /\ \A p \in DOMAIN kids : Len(kids[p]) = Cardinality(ToSet(kids[p]))

(* Siblings are in the order in which the directory was read.              *)
InOrder ==
  \A d \in Dirs : \A i, j \in DOMAIN disk[d] : \A k, l \in DOMAIN kids[d] :
    (disk[d][i].name = kids[d][k] /\ disk[d][j].name = kids[d][l] /\ i < j) => k < l

(* The tree that add builds (L360-411) at every moment of the walk.        *)
TreeInv == TypeOK /\ TreeIsRight /\ InOrder

(* A tree that is printed has every wanted file, but for directories the   *)
(* walk gave up and what is below what they did not come to: a directory   *)
(* the user may not open, one in which SIGINT or an entry that was gone    *)
(* came - which print the rest all the same (L189-190).                    *)
GivenUp(p) == \E d \in skipped : IsPrefix(d, p)
PrintedIsComplete ==
  pc = "printed" => \A p \in Accepted : p \in Nodes \/ GivenUp(p)

(* An interrupted search is taken for a finished one only if every         *)
(* directory on the way to the outermost one that SIGINT stopped was at    *)
(* its last entry (L182-187 would stop it at the next); a search that met a vanished      *)
(* entry, only if it was kept out of a directory as well, whose errno      *)
(* hides the other (L195).                                                 *)
OnTheWay(d) == {p \in Prefixes(d) \ {d} : IsPrefix(Top, p)}
PrintedInSpite ==
  pc = "printed" =>
    /\ vanished = {} => \A d \in skipped \ closed :
         /\ curSignal > 0 /\ d # Top
         /\ OnTheWay(d) \cap skipped = {} => \A p \in OnTheWay(d) : Last(disk[p]).name = d[Len(p) + 1]
    /\ vanished # {} => closed \cap skipped # {}

(* What the user may conclude from a printed tree: it has every wanted     *)
(* file but for the gaps named above, although the walk drops the result   *)
(* of its recursive calls (L189) and errno outlives what it told (L195).   *)
PrintedIsTrue == PrintedIsComplete /\ PrintedInSpite

(* The search ends.                                                        *)
SearchEnds == <>(pc \in {"printed", "failed"})
=============================================================================
