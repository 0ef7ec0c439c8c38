--------------------------- MODULE FileSearchProofs ---------------------------
(***************************************************************************)
(* Theorems about FileSearch.  The inductive invariant says of every path  *)
(* where the walk stands with it: whether it is done with, given up or     *)
(* still to come, by the calls of traverse_filesystem on the stack.        *)
(***************************************************************************)
EXTENDS FileSearch, FiniteSetTheorems, WellFoundedInduction, TLAPS

Paths == Seq(Names)
Errnos == {"ok", "EACCES", "ENOENT"}
Frames == [dir : Dirs, next : Nat, save : Errnos]
KidsDomain == UNION {Prefixes(d) : d \in Dirs}

Shape ==
  /\ disk \in Disks /\ closed \subseteq Dirs /\ opts \in Criteria
  /\ stack \in Seq(Frames) /\ errno \in Errnos /\ curSignal \in 0..MaxSig
  /\ kids \in [KidsDomain -> Seq(Names)]
  /\ pc \in {"call", "walk", "printed", "failed"} /\ called \in Dirs /\ skipped \subseteq Dirs
  /\ \A k \in DOMAIN stack : /\ stack[k].next \in 1..Len(disk[stack[k].dir]) + 1
                             /\ Len(stack[k].dir) = Len(Top) + k - 1
  /\ pc = "walk" => stack # <<>>
  /\ pc \in {"printed", "failed"} => stack = <<>>
  /\ stack # <<>> => stack[1].save = "ok"
  /\ pc = "call" => /\ Len(called) = Len(Top) + Len(stack)
                    /\ stack = <<>> => errno = "ok"

(* The call with frame f has come, in its directory, to the entry on the   *)
(* way to q.                                                               *)
At(f, q) ==
  /\ IsPrefix(f.dir, q) /\ Len(f.dir) < Len(q)
  /\ f.next > 1 /\ disk[f.dir][f.next - 1].name = q[Len(f.dir) + 1]
Chain ==
  /\ \A l \in DOMAIN stack : \A k \in 1..l - 1 : At(stack[k], stack[l].dir)
  /\ pc = "call" => \A k \in DOMAIN stack : At(stack[k], called)

(* It has the entry on the way to q before it.                             *)
Before(f, q) ==
  /\ IsPrefix(f.dir, q) /\ Len(f.dir) < Len(q)
  /\ \E j \in f.next..Len(disk[f.dir]) : disk[f.dir][j].name = q[Len(f.dir) + 1]
ToCome(q) ==
  \/ pc = "call" /\ IsPrefix(called, q) /\ Len(called) < Len(q)
  \/ \E k \in DOMAIN stack : Before(stack[k], q)
Complete == \A p \in Accepted : p \in Nodes \/ GivenUp(p) \/ ToCome(p)

(* The lists of siblings: of a directory on the stack, the names up to the *)
(* entry it has come to; of one to come, none.                             *)
Untouched(d) == ToCome(d) \/ (pc = "call" /\ d = called)
Listed ==
  /\ \A k \in DOMAIN stack : \A m \in DOMAIN kids[stack[k].dir] :
       \E i \in 1..stack[k].next - 1 : disk[stack[k].dir][i].name = kids[stack[k].dir][m]
  /\ \A d \in Dirs : Untouched(d) => kids[d] = <<>>
  /\ \A p \in DOMAIN kids : \A m, n \in DOMAIN kids[p] : kids[p][m] = kids[p][n] => m = n
  /\ \A p \in DOMAIN kids : \A m \in DOMAIN kids[p] :
       \E q \in Accepted : IsPrefix(Append(p, kids[p][m]), q)

(* Why a directory was given up, and what errno remembers of it.           *)
Reasons ==
  /\ Top \in skipped => pc = "failed"
  /\ vanished = {} =>
       \A d \in skipped \ closed :
         /\ curSignal > 0
         /\ \A p \in OnTheWay(d) : \/ p \in skipped
                                   \/ Last(disk[p]).name = d[Len(p) + 1]
                                   \/ \E k \in DOMAIN stack : stack[k].dir = p /\ At(stack[k], d)
  /\ vanished # {} => errno # "ok"
  /\ errno = "EACCES" => closed \cap skipped # {}
  /\ pc = "printed" => errno \in {"ok", "EACCES"}

IInv == Shape /\ Chain /\ Complete /\ Listed /\ InOrder /\ Reasons

-----------------------------------------------------------------------------
(* Sequences that begin alike.                                             *)

LEMMA PrefixIs == ASSUME NEW T, NEW s \in Seq(T), NEW t \in Seq(T)
                  PROVE  IsPrefix(s, t) <=> Len(s) <= Len(t) /\ \A i \in 1..Len(s) : s[i] = t[i]
<1>1. CASE Len(s) <= Len(t)
  <2>1. SubSeq(s, 1, Len(s)) = s
    OBVIOUS
  <2>2. SubSeq(t, 1, Len(s)) \in Seq(T) /\ Len(SubSeq(t, 1, Len(s))) = Len(s)
    BY <1>1
  <2>3. \A i \in 1..Len(s) : SubSeq(t, 1, Len(s))[i] = t[i]
    BY <1>1
  <2>4. s = SubSeq(t, 1, Len(s)) <=> \A i \in 1..Len(s) : s[i] = SubSeq(t, 1, Len(s))[i]
    BY <2>2
  <2> QED BY <1>1, <2>1, <2>3, <2>4 DEF IsPrefix
<1>2. CASE ~ (Len(s) <= Len(t))
  BY <1>2 DEF IsPrefix
<1> QED BY <1>1, <1>2

LEMMA PrefixTrans == ASSUME NEW T, NEW s \in Seq(T), NEW t \in Seq(T), NEW u \in Seq(T),
                            IsPrefix(s, t), IsPrefix(t, u)
                     PROVE  IsPrefix(s, u)
  BY PrefixIs

LEMMA PrefixEither == ASSUME NEW T, NEW s \in Seq(T), NEW t \in Seq(T), NEW u \in Seq(T),
                             IsPrefix(s, u), IsPrefix(t, u), Len(s) <= Len(t)
                      PROVE  IsPrefix(s, t) /\ (Len(s) = Len(t) => s = t)
<1>1. IsPrefix(s, t)
  BY PrefixIs
<1>2. Len(s) = Len(t) => \A i \in 1..Len(s) : s[i] = t[i]
  BY <1>1, PrefixIs
<1> QED BY <1>1, <1>2

LEMMA PrefixSame == ASSUME NEW T, NEW s \in Seq(T), NEW t \in Seq(T), IsPrefix(s, t), Len(s) = Len(t)
                    PROVE  s = t
<1>1. \A i \in 1..Len(s) : s[i] = t[i]
  BY PrefixIs
<1> QED BY <1>1

LEMMA PrefixSelf == ASSUME NEW T, NEW s \in Seq(T)
                    PROVE  IsPrefix(s, s)
  BY PrefixIs

LEMMA PrefixAppend == ASSUME NEW T, NEW s \in Seq(T), NEW x \in T
                      PROVE  /\ Append(s, x) \in Seq(T) /\ Len(Append(s, x)) = Len(s) + 1
                             /\ IsPrefix(s, Append(s, x)) /\ Append(s, x)[Len(s) + 1] = x
                             /\ \A i \in 1..Len(s) : Append(s, x)[i] = s[i]
<1>1. Append(s, x) \in Seq(T) /\ Len(Append(s, x)) = Len(s) + 1 /\ Append(s, x)[Len(s) + 1] = x
  OBVIOUS
<1>2. \A i \in 1..Len(s) : Append(s, x)[i] = s[i]
  OBVIOUS
<1>3. IsPrefix(s, Append(s, x))
  <2> DEFINE u == Append(s, x)
  <2>1. u \in Seq(T) /\ Len(s) <= Len(u) /\ \A i \in 1..Len(s) : s[i] = u[i]
    BY <1>1, <1>2
  <2> HIDE DEF u
  <2>2. IsPrefix(s, u)
    BY <2>1, PrefixIs
  <2> QED BY <2>2 DEF u
<1> QED BY <1>1, <1>2, <1>3

LEMMA PrefixOneMore == ASSUME NEW T, NEW s \in Seq(T), NEW t \in Seq(T), IsPrefix(s, t), Len(s) < Len(t)
                       PROVE  IsPrefix(Append(s, t[Len(s) + 1]), t)
<1>1. t[Len(s) + 1] \in T
  OBVIOUS
<1> DEFINE u == Append(s, t[Len(s) + 1])
<1>2. u \in Seq(T) /\ Len(u) = Len(s) + 1 /\ u[Len(s) + 1] = t[Len(s) + 1]
  BY <1>1, PrefixAppend
<1>3. \A i \in 1..Len(s) : u[i] = s[i]
  BY <1>1, PrefixAppend
<1>4. \A i \in 1..Len(s) : u[i] = t[i]
  BY <1>3, PrefixIs
<1>5. \A i \in 1..Len(u) : u[i] = t[i]
  BY <1>2, <1>4
<1> HIDE DEF u
<1>6. IsPrefix(u, t)
  BY <1>2, <1>5, PrefixIs
<1> QED BY <1>6 DEF u

LEMMA PrefixOfAppend == ASSUME NEW T, NEW s \in Seq(T), NEW t \in Seq(T), NEW x \in T,
                               IsPrefix(s, Append(t, x))
                        PROVE  Len(s) <= Len(t) + 1 /\ (Len(s) <= Len(t) => IsPrefix(s, t))
                               /\ (Len(s) = Len(t) + 1 => s = Append(t, x))
<1>1. /\ Append(t, x) \in Seq(T) /\ Len(Append(t, x)) = Len(t) + 1
      /\ \A i \in 1..Len(t) : Append(t, x)[i] = t[i]
  BY PrefixAppend
<1>2. Len(s) <= Len(t) + 1 /\ \A i \in 1..Len(s) : s[i] = Append(t, x)[i]
  <2> DEFINE u == Append(t, x)
  <2>1. u \in Seq(T) /\ Len(u) = Len(t) + 1 /\ IsPrefix(s, u)
    BY <1>1
  <2> HIDE DEF u
  <2>2. Len(s) <= Len(t) + 1 /\ \A i \in 1..Len(s) : s[i] = u[i]
    BY <2>1, PrefixIs
  <2> QED BY <2>2 DEF u
<1>3. Len(s) <= Len(t) => IsPrefix(s, t)
  BY <1>1, <1>2, PrefixIs
<1>4. Len(s) = Len(t) + 1 => s = Append(t, x)
  BY <1>1, PrefixSame
<1> QED BY <1>2, <1>3, <1>4

LEMMA PrefixSub == ASSUME NEW T, NEW t \in Seq(T), NEW n \in 0..Len(t)
                   PROVE  /\ SubSeq(t, 1, n) \in Seq(T) /\ Len(SubSeq(t, 1, n)) = n
                          /\ IsPrefix(SubSeq(t, 1, n), t)
<1>1. SubSeq(t, 1, n) \in Seq(T) /\ Len(SubSeq(t, 1, n)) = n /\ \A i \in 1..n : SubSeq(t, 1, n)[i] = t[i]
  OBVIOUS
<1> DEFINE u == SubSeq(t, 1, n)
<1>2. u \in Seq(T) /\ Len(u) = n /\ \A i \in 1..n : u[i] = t[i]
  BY <1>1
<1> HIDE DEF u
<1>3. IsPrefix(u, t)
  BY <1>2, PrefixIs
<1> QED BY <1>2, <1>3 DEF u

LEMMA PrefixesAre == ASSUME NEW T, NEW s \in Seq(T), NEW t \in Seq(T)
                     PROVE  s \in Prefixes(t) <=> IsPrefix(s, t)
<1>1. ASSUME IsPrefix(s, t) PROVE s \in Prefixes(t)
  <2>1. Len(s) \in 0..Len(t)
    BY <1>1, PrefixIs
  <2> DEFINE u == SubSeq(t, 1, Len(s))
  <2>2. u \in Seq(T) /\ Len(u) = Len(s) /\ IsPrefix(u, t)
    BY <2>1, PrefixSub
  <2> HIDE DEF u
  <2>3. s = u
    BY <1>1, <2>2, PrefixEither
  <2> QED BY <2>1, <2>3 DEF Prefixes, u
<1>2. ASSUME s \in Prefixes(t) PROVE IsPrefix(s, t)
  BY <1>2, PrefixSub DEF Prefixes
<1> QED BY <1>1, <1>2

-----------------------------------------------------------------------------
(* The file system.                                                        *)

LEMMA DirsAre == ASSUME Shape
                 PROVE  /\ Top \in Dirs /\ Top \in Paths
                        /\ \A d \in Dirs : /\ d \in Paths /\ IsPrefix(Top, d) /\ Len(Top) <= Len(d)
                                           /\ disk[d] \in Seq(Entries)
<1>1. IsFileSystem(disk)
  BY SearchAssumption DEF Shape
<1>2. /\ Top \in Dirs
      /\ \A d \in Dirs : d \in Paths /\ IsPrefix(Top, d) /\ disk[d] \in Seq(Entries)
  BY <1>1 DEF IsFileSystem, Dirs, Paths
<1>3. \A d \in Dirs : Len(Top) <= Len(d)
  BY <1>2, PrefixIs DEF Paths
<1> QED BY <1>2, <1>3

LEMMA EntriesAre == ASSUME Shape, NEW d \in Dirs, NEW i \in DOMAIN disk[d]
                    PROVE  /\ disk[d][i] \in Entries /\ disk[d][i].name \in Names
                           /\ i \in Nat /\ i >= 1 /\ i <= Len(disk[d])
                           /\ \A j \in DOMAIN disk[d] : disk[d][i].name = disk[d][j].name => i = j
                           /\ Append(d, disk[d][i].name) \in Paths
                           /\ disk[d][i].type = "d" <=> Append(d, disk[d][i].name) \in Dirs
<1>1. IsFileSystem(disk)
  BY SearchAssumption DEF Shape
<1>2. d \in Paths /\ disk[d] \in Seq(Entries)
  BY DirsAre
<1>3. disk[d][i] \in Entries /\ i \in Nat /\ i >= 1 /\ i <= Len(disk[d])
  BY <1>2
<1>4. disk[d][i].name \in Names
  BY <1>3 DEF Entries
<1>5. Append(d, disk[d][i].name) \in Paths
  BY <1>2, <1>4, PrefixAppend DEF Paths
<1>6. /\ \A j \in DOMAIN disk[d] : disk[d][i].name = disk[d][j].name => i = j
      /\ disk[d][i].type = "d" <=> Append(d, disk[d][i].name) \in Dirs
  BY <1>1 DEF IsFileSystem, Dirs
<1> QED BY <1>3, <1>4, <1>5, <1>6

LEMMA OnTheWayAre == ASSUME Shape, NEW d \in Dirs, NEW p \in Paths, IsPrefix(p, d), Len(Top) <= Len(p)
                     PROVE  /\ p \in Dirs
                            /\ Len(p) < Len(d) => \E i \in DOMAIN disk[p] : disk[p][i].name = d[Len(p) + 1]
<1>1. IsFileSystem(disk)
  BY SearchAssumption DEF Shape
<1>2. d \in Paths /\ Len(p) <= Len(d) /\ Len(p) \in Nat /\ Len(d) \in Nat /\ Len(Top) \in Nat
  BY DirsAre, PrefixIs DEF Paths
<1>3. CASE Len(p) = Len(d)
  BY <1>2, <1>3, PrefixSame DEF Paths
<1>4. CASE Len(p) < Len(d)
  <2>1. Len(p) \in Len(Top)..Len(d) - 1
    BY <1>2, <1>4
  <2>2. p = SubSeq(d, 1, Len(p))
    <3> DEFINE u == SubSeq(d, 1, Len(p))
    <3>1. u \in Paths /\ Len(u) = Len(p) /\ IsPrefix(u, d)
      BY <1>2, PrefixSub DEF Paths
    <3> HIDE DEF u
    <3>2. p = u
      BY <1>2, <3>1, PrefixEither DEF Paths
    <3> QED BY <3>2 DEF u
  <2>3. /\ SubSeq(d, 1, Len(p)) \in DOMAIN disk
        /\ \E i \in DOMAIN disk[SubSeq(d, 1, Len(p))] : disk[SubSeq(d, 1, Len(p))][i].name = d[Len(p) + 1]
    BY <1>1, <2>1 DEF IsFileSystem, Dirs
  <2> QED BY <2>2, <2>3 DEF Dirs
<1> QED BY <1>2, <1>3, <1>4

LEMMA EntryAtIs == ASSUME Shape, NEW d \in Dirs, NEW i \in DOMAIN disk[d]
                   PROVE  EntryAt(Append(d, disk[d][i].name)) = disk[d][i]
<1> DEFINE p == Append(d, disk[d][i].name)
<1>1. d \in Paths /\ disk[d][i].name \in Names
  BY DirsAre, EntriesAre
<1>2. Front(p) = d /\ Last(p) = disk[d][i].name
  BY <1>1 DEF Front, Last, Paths
<1>3. \A e \in ToSet(disk[d]) : e.name = disk[d][i].name => e = disk[d][i]
  BY EntriesAre DEF ToSet
<1>4. disk[d][i] \in ToSet(disk[d])
  BY DEF ToSet
<1>5. EntryAt(p) = CHOOSE e \in ToSet(disk[d]) : e.name = disk[d][i].name
  BY <1>2 DEF EntryAt
<1> QED BY <1>3, <1>4, <1>5

LEMMA FilesAre == ASSUME Shape, NEW p
                  PROVE  p \in Files <=> \E d \in Dirs : \E i \in DOMAIN disk[d] : p = Append(d, disk[d][i].name)
  BY DirsAre DEF Files, Below

LEMMA AcceptedAre ==
  ASSUME Shape, NEW p
  PROVE  p \in Accepted <=> \E d \in Dirs : \E i \in DOMAIN disk[d] :
                               p = Append(d, disk[d][i].name) /\ Validate(disk[d][i])
<1>1. p \in Accepted <=> p \in Files /\ Validate(EntryAt(p))
  BY DEF Accepted
<1>2. ASSUME NEW d \in Dirs, NEW i \in DOMAIN disk[d], p = Append(d, disk[d][i].name)
      PROVE  EntryAt(p) = disk[d][i]
  BY <1>2, EntryAtIs
<1> QED BY <1>1, <1>2, FilesAre

(* What the walk leaves alone.                                             *)
LEMMA InputStays == ASSUME UNCHANGED input
                    PROVE  /\ Dirs' = Dirs /\ Files' = Files /\ Accepted' = Accepted
                           /\ KidsDomain' = KidsDomain /\ Frames' = Frames
                           /\ disk' = disk /\ closed' = closed /\ opts' = opts
<1>1. disk' = disk /\ closed' = closed /\ opts' = opts
  BY DEF input
<1>2. Dirs' = Dirs /\ KidsDomain' = KidsDomain /\ Frames' = Frames
  BY <1>1 DEF Dirs, KidsDomain, Frames
<1>3. Files' = Files
  BY <1>1 DEF Files, Below, Dirs
<1>4. Accepted' = Accepted
  BY <1>1, <1>3 DEF Accepted, EntryAt, Validate, Given
<1> QED BY <1>1, <1>2, <1>3, <1>4


-----------------------------------------------------------------------------
(* The stack, the calls and the tree.                                      *)

LEMMA ReturnsIs == ASSUME NEW rest, NEW ret, Returns(rest, ret)
                   PROVE  /\ stack' = rest
                          /\ rest = <<>> => pc' = IF ret = 0 THEN "printed" ELSE "failed"
                          /\ rest # <<>> => pc' = "walk"
  BY DEF Returns, Ignored

LEMMA StackIs ==
  ASSUME Shape, stack # <<>>
  PROVE  /\ Len(stack) \in Nat /\ Len(stack) >= 1 /\ DOMAIN stack = 1..Len(stack)
         /\ Frame = stack[Len(stack)] /\ Frame \in Frames /\ Frame.dir \in Dirs /\ Frame.next \in Nat
         /\ Frame.next \in 1..Len(disk[Frame.dir]) + 1
         /\ Len(Frame.dir) = Len(Top) + Len(stack) - 1 /\ (Len(stack) = 1 => Frame.dir = Top)
         /\ Callers \in Seq(Frames) /\ Len(Callers) = Len(stack) - 1
         /\ \A k \in 1..Len(stack) - 1 : Callers[k] = stack[k]
         /\ Callers = <<>> <=> Len(stack) = 1
<1>1. stack \in Seq(Frames)
  BY DEF Shape
<1>2. Len(stack) \in Nat /\ Len(stack) >= 1 /\ DOMAIN stack = 1..Len(stack)
  BY <1>1
<1>3. Frame = stack[Len(stack)]
  BY DEF Frame, Last
<1>4. Frame \in Frames
  BY <1>1, <1>2, <1>3
<1>5. Frame.dir \in Dirs /\ Frame.next \in Nat
  BY <1>4 DEF Frames
<1>6. Frame.next \in 1..Len(disk[Frame.dir]) + 1 /\ Len(Frame.dir) = Len(Top) + Len(stack) - 1
  <2>1. \A k \in DOMAIN stack : /\ stack[k].next \in 1..Len(disk[stack[k].dir]) + 1
                                /\ Len(stack[k].dir) = Len(Top) + k - 1
    BY DEF Shape
  <2>2. Len(stack) \in DOMAIN stack
    BY <1>2
  <2> QED BY <1>3, <2>1, <2>2
<1>7. /\ Callers \in Seq(Frames) /\ Len(Callers) = Len(stack) - 1
      /\ \A k \in 1..Len(stack) - 1 : Callers[k] = stack[k]
  BY <1>1, <1>2 DEF Callers, Front
<1>8. Callers = <<>> <=> Len(stack) = 1
  BY <1>2, <1>7
<1>9. ASSUME Len(stack) = 1 PROVE Frame.dir = Top
  <2>1. Frame.dir \in Paths /\ Top \in Paths /\ IsPrefix(Top, Frame.dir)
    BY <1>5, DirsAre
  <2>2. Len(Frame.dir) = Len(Top)
    BY <1>6, <1>9, <2>1 DEF Paths
  <2> QED BY <2>1, <2>2, PrefixSame DEF Paths
<1> QED BY <1>2, <1>3, <1>4, <1>5, <1>6, <1>7, <1>8, <1>9

LEMMA EntryIs ==
  ASSUME Shape, pc = "walk", More
  PROVE  /\ stack # <<>> /\ Frame.next \in DOMAIN disk[Frame.dir] /\ Entry = disk[Frame.dir][Frame.next]
         /\ Entry \in Entries /\ Entry.name \in Names /\ Frame.dir \in Paths /\ PathOf(Entry) \in Paths
         /\ PathOf(Entry) = Append(Frame.dir, disk[Frame.dir][Frame.next].name)
         /\ Len(PathOf(Entry)) = Len(Frame.dir) + 1 /\ PathOf(Entry)[Len(Frame.dir) + 1] = Entry.name
         /\ IsPrefix(Frame.dir, PathOf(Entry)) /\ Len(Frame.dir) \in Nat
         /\ IsDir(Entry) <=> PathOf(Entry) \in Dirs
<1>1. stack # <<>>
  BY DEF Shape
<1>2. Frame.dir \in Dirs /\ Frame.next \in 1..Len(disk[Frame.dir]) + 1
  BY <1>1, StackIs
<1>3. Frame.dir \in Paths /\ disk[Frame.dir] \in Seq(Entries)
  BY <1>2, DirsAre
<1>4. Frame.next \in DOMAIN disk[Frame.dir]
  BY <1>2, <1>3 DEF More
<1>5. Entry = disk[Frame.dir][Frame.next]
  BY DEF Entry
<1>6. Entry \in Entries /\ Entry.name \in Names /\ (Entry.type = "d" <=> Append(Frame.dir, Entry.name) \in Dirs)
  BY <1>2, <1>4, <1>5, EntriesAre
<1>7. PathOf(Entry) = Append(Frame.dir, Entry.name)
  BY DEF PathOf
<1>8. /\ PathOf(Entry) \in Paths /\ Len(PathOf(Entry)) = Len(Frame.dir) + 1
      /\ PathOf(Entry)[Len(Frame.dir) + 1] = Entry.name /\ IsPrefix(Frame.dir, PathOf(Entry))
  BY <1>3, <1>6, <1>7, PrefixAppend DEF Paths
<1>9. Len(Frame.dir) \in Nat
  BY <1>3 DEF Paths
<1> QED BY <1>1, <1>3, <1>4, <1>5, <1>6, <1>7, <1>8, <1>9 DEF IsDir

LEMMA KidsDomainIs == ASSUME Shape
                      PROVE  /\ \A p \in KidsDomain : p \in Paths /\ \E d \in Dirs : IsPrefix(p, d)
                             /\ \A p \in Paths : \A d \in Dirs : IsPrefix(p, d) => p \in KidsDomain
                             /\ Dirs \subseteq KidsDomain
                             /\ DOMAIN kids = KidsDomain /\ \A p \in KidsDomain : kids[p] \in Seq(Names)
<1>1. ASSUME NEW p \in KidsDomain PROVE p \in Paths /\ \E d \in Dirs : IsPrefix(p, d)
  <2>1. PICK d \in Dirs : p \in Prefixes(d)
    BY DEF KidsDomain
  <2>2. d \in Paths
    BY DirsAre
  <2>3. p \in Paths
    BY <2>1, <2>2, PrefixSub DEF Prefixes, Paths
  <2> QED BY <2>1, <2>2, <2>3, PrefixesAre DEF Paths
<1>2. ASSUME NEW p \in Paths, NEW d \in Dirs, IsPrefix(p, d) PROVE p \in KidsDomain
  <2>1. d \in Paths
    BY DirsAre
  <2>2. p \in Prefixes(d)
    BY <1>2, <2>1, PrefixesAre DEF Paths
  <2> QED BY <2>2 DEF KidsDomain
<1>3. Dirs \subseteq KidsDomain
  <2> SUFFICES ASSUME NEW d \in Dirs PROVE d \in KidsDomain
    OBVIOUS
  <2>1. d \in Paths /\ IsPrefix(d, d)
    BY DirsAre, PrefixSelf DEF Paths
  <2> QED BY <1>2, <2>1
<1>4. DOMAIN kids = KidsDomain /\ \A p \in KidsDomain : kids[p] \in Seq(Names)
  BY DEF Shape
<1> QED BY <1>1, <1>2, <1>3, <1>4

(* What add does to a list of siblings.                                    *)
Comes(p, path) ==
  /\ IsPrefix(p, path) /\ Len(p) < Len(path)
  /\ \A m \in DOMAIN kids[p] : kids[p][m] # path[Len(p) + 1]

LEMMA AddedIs == ASSUME Shape, NEW path \in Paths
                 PROVE  /\ Added(path) \in [KidsDomain -> Seq(Names)]
                        /\ \A p \in KidsDomain :
                             Added(path)[p] = IF Comes(p, path) THEN Append(kids[p], path[Len(p) + 1]) ELSE kids[p]
<1>1. Added(path) =
        [p \in KidsDomain |-> IF p \in Visited(path) /\ ~Present(path[Len(p) + 1], kids[p])
                              THEN Append(kids[p], path[Len(p) + 1]) ELSE kids[p]]
  BY KidsDomainIs DEF Added, Placed
<1>2. ASSUME NEW p \in KidsDomain
      PROVE  p \in Visited(path) /\ ~Present(path[Len(p) + 1], kids[p]) <=> Comes(p, path)
  <2>1. p \in Paths
    BY KidsDomainIs
  <2>2. p \in Visited(path) <=> IsPrefix(p, path) /\ Len(p) < Len(path)
    <3>1. IsPrefix(p, path) => Len(p) <= Len(path) /\ (Len(p) = Len(path) => p = path)
      BY <2>1, PrefixIs, PrefixSame DEF Paths
    <3>2. p \in Visited(path) <=> IsPrefix(p, path) /\ p # path
      BY KidsDomainIs DEF Visited, IsStrictPrefix
    <3> QED BY <2>1, <3>1, <3>2 DEF Paths
  <2>3. Present(path[Len(p) + 1], kids[p]) <=> \E m \in DOMAIN kids[p] : kids[p][m] = path[Len(p) + 1]
    BY DEF Present, ToSet
  <2> QED BY <2>2, <2>3 DEF Comes
<1>3. ASSUME NEW p \in KidsDomain
      PROVE  /\ kids[p] \in Seq(Names)
             /\ Comes(p, path) => Append(kids[p], path[Len(p) + 1]) \in Seq(Names)
  <2>1. p \in Paths /\ kids[p] \in Seq(Names)
    BY KidsDomainIs
  <2>2. Comes(p, path) => path[Len(p) + 1] \in Names
    BY <2>1 DEF Comes, Paths
  <2> QED BY <2>1, <2>2
<1>4. Added(path) = [p \in KidsDomain |-> IF Comes(p, path) THEN Append(kids[p], path[Len(p) + 1]) ELSE kids[p]]
  BY <1>1, <1>2
<1> QED BY <1>3, <1>4


-----------------------------------------------------------------------------
(* The steps, by what they do to the stack.                                *)
Opens == /\ pc = "call" /\ called \notin closed
         /\ stack' = Append(stack, [dir |-> called, next |-> 1, save |-> errno])
         /\ pc' = "walk"
Goes == /\ pc = "walk" /\ More
        /\ stack' = Append(Callers, [Frame EXCEPT !.next = After(@)])
Pops == /\ pc = "walk" /\ stack' = Callers
        /\ Callers # <<>> => pc' = "walk"
        /\ Callers = <<>> => pc' \in {"printed", "failed"}

LEMMA OpensStack ==
  ASSUME Shape, Opens
  PROVE  /\ stack' \in Seq(Frames) /\ Len(stack') = Len(stack) + 1 /\ Len(stack) \in Nat
         /\ \A k \in 1..Len(stack) : stack'[k] = stack[k] /\ k \in DOMAIN stack
         /\ stack'[Len(stack) + 1] = [dir |-> called, next |-> 1, save |-> errno]
<1>1. stack \in Seq(Frames)
  BY DEF Shape
<1> DEFINE f == [dir |-> called, next |-> 1, save |-> errno]
<1>2. f \in Frames
  BY DEF Shape, Frames
<1> HIDE DEF f
<1>3. stack' = Append(stack, f)
  BY DEF Opens, f
<1>4. /\ stack' \in Seq(Frames) /\ Len(stack') = Len(stack) + 1 /\ Len(stack) \in Nat
      /\ \A k \in 1..Len(stack) : stack'[k] = stack[k] /\ k \in DOMAIN stack
      /\ stack'[Len(stack) + 1] = f
  BY <1>1, <1>2, <1>3
<1> QED BY <1>4 DEF f

LEMMA GoesStack ==
  ASSUME Shape, Goes
  PROVE  /\ stack' \in Seq(Frames) /\ Len(stack') = Len(stack) /\ Len(stack) \in Nat /\ Len(stack) >= 1
         /\ \A k \in 1..Len(stack) - 1 : stack'[k] = stack[k]
         /\ stack'[Len(stack)] = [Frame EXCEPT !.next = Frame.next + 1]
         /\ Frame = stack[Len(stack)] /\ stack'[Len(stack)].dir = Frame.dir
         /\ stack'[Len(stack)].next = Frame.next + 1 /\ stack'[Len(stack)].save = Frame.save
         /\ Frame.next \in Nat
<1>1. stack # <<>>
  BY DEF Shape, Goes
<1>2. /\ Len(stack) \in Nat /\ Len(stack) >= 1 /\ Frame = stack[Len(stack)] /\ Frame \in Frames
      /\ Callers \in Seq(Frames) /\ Len(Callers) = Len(stack) - 1
      /\ \A k \in 1..Len(stack) - 1 : Callers[k] = stack[k]
  BY <1>1, StackIs
<1> DEFINE f == [Frame EXCEPT !.next = Frame.next + 1]
<1>3. f \in Frames /\ f.dir = Frame.dir /\ f.next = Frame.next + 1 /\ f.save = Frame.save /\ Frame.next \in Nat
  BY <1>2 DEF Frames
<1>4. stack' = Append(Callers, f)
  BY DEF Goes, After
<1> HIDE DEF f
<1>5. /\ stack' \in Seq(Frames) /\ Len(stack') = Len(stack) /\ stack'[Len(stack)] = f
      /\ \A k \in 1..Len(stack) - 1 : stack'[k] = stack[k]
  BY <1>2, <1>3, <1>4
<1> QED BY <1>2, <1>3, <1>5 DEF f

LEMMA PopsStack ==
  ASSUME Shape, Pops
  PROVE  /\ stack' \in Seq(Frames) /\ Len(stack') = Len(stack) - 1 /\ Len(stack) \in Nat /\ Len(stack) >= 1
         /\ \A k \in 1..Len(stack) - 1 : stack'[k] = stack[k] /\ k \in DOMAIN stack
         /\ stack' = <<>> <=> Len(stack) = 1
         /\ stack' # <<>> => stack'[1] = stack[1]
<1>1. stack # <<>>
  BY DEF Shape, Pops
<1>2. /\ Len(stack) \in Nat /\ Len(stack) >= 1 /\ DOMAIN stack = 1..Len(stack)
      /\ Callers \in Seq(Frames) /\ Len(Callers) = Len(stack) - 1
      /\ \A k \in 1..Len(stack) - 1 : Callers[k] = stack[k]
      /\ Callers = <<>> <=> Len(stack) = 1
  BY <1>1, StackIs
<1> QED BY <1>2 DEF Pops

(* What each step does.                                                    *)
CallSkips == /\ pc = "call" /\ stack' = stack
             /\ \/ called \in closed /\ errno' = "EACCES" /\ vanished' = vanished
                \/ errno' = "ENOENT" /\ vanished' = vanished \cup {called}
             /\ skipped' = skipped \cup {called} /\ kids' = kids /\ called' = called
             /\ curSignal' = curSignal
             /\ stack # <<>> => pc' = "walk"
             /\ stack = <<>> => pc' = "failed"
CallOpens == /\ Opens /\ errno' = errno /\ skipped' = skipped /\ kids' = kids /\ called' = called
             /\ vanished' = vanished /\ curSignal' = curSignal
VanishStep == /\ Pops /\ More /\ errno' = "ENOENT" /\ vanished' = vanished \cup {PathOf(Entry)}
              /\ skipped' = skipped \cup {Frame.dir} /\ kids' = kids /\ called' = called
              /\ curSignal' = curSignal
              /\ Callers = <<>> => pc' = "failed"
TreeStep == /\ Validate(Entry) => kids' = Added(PathOf(Entry))
            /\ ~Validate(Entry) => kids' = kids
TurnStops == /\ Pops /\ More /\ TreeStep /\ curSignal > 0 /\ skipped' = skipped \cup {Frame.dir}
             /\ called' = called /\ errno' = errno /\ vanished' = vanished /\ curSignal' = curSignal
             /\ Callers = <<>> => pc' = "failed"
TurnGoes == /\ Goes /\ TreeStep /\ ~(curSignal > 0) /\ skipped' = skipped
            /\ IsDir(Entry) => pc' = "call" /\ called' = PathOf(Entry)
            /\ ~IsDir(Entry) => pc' = "walk" /\ called' = called
            /\ errno' = errno /\ vanished' = vanished /\ curSignal' = curSignal
EndStep == /\ Pops /\ ~More /\ errno' = errno /\ kids' = kids /\ called' = called /\ vanished' = vanished
           /\ skipped' = skipped /\ curSignal' = curSignal
           /\ pc' = "printed" => Frame.save = errno \/ errno = "EACCES"
SignalStep == /\ pc \in {"call", "walk"} /\ curSignal < MaxSig /\ curSignal' = curSignal + 1
              /\ stack' = stack /\ errno' = errno /\ kids' = kids /\ pc' = pc /\ called' = called
              /\ vanished' = vanished /\ skipped' = skipped

LEMMA StepIs == ASSUME Shape, [Next]_vars
                PROVE  /\ UNCHANGED input
                       /\ \/ CallSkips \/ CallOpens \/ VanishStep \/ TurnStops \/ TurnGoes \/ EndStep
                          \/ SignalStep \/ UNCHANGED vars
<1>1. CASE Call
  <2>1. CASE called \in closed
    <3>1. Returns(stack, -1) /\ errno' = "EACCES" /\ skipped' = skipped \cup {called}
      BY <1>1, <2>1 DEF Call
    <3>2. CallSkips
      BY <1>1, <2>1, <3>1, ReturnsIs DEF Call, CallSkips
    <3> QED BY <1>1, <3>2 DEF Call
  <2>2. CASE called \notin closed
    BY <1>1, <2>2 DEF Call, CallOpens, Opens
  <2> QED BY <2>1, <2>2
<1>7. CASE CallVanishes
  <2>1. Returns(stack, -1) /\ pc = "call"
    BY <1>7 DEF CallVanishes
  <2> QED BY <1>7, <2>1, ReturnsIs DEF CallVanishes, CallSkips
<1>2. CASE Vanish
  <2>1. Returns(Callers, -1)
    BY <1>2 DEF Vanish
  <2>2. Pops /\ (Callers = <<>> => pc' = "failed")
    BY <1>2, <2>1, ReturnsIs DEF Vanish, Pops
  <2> QED BY <1>2, <2>2 DEF Vanish, VanishStep
<1>3. CASE Turn
  <2>1. TreeStep
    BY <1>3 DEF Turn, TreeStep
  <2>2. CASE curSignal > 0
    <3>1. Returns(Callers, -1)
      BY <1>3, <2>2 DEF Turn
    <3>2. Pops /\ (Callers = <<>> => pc' = "failed")
      BY <1>3, <3>1, ReturnsIs DEF Turn, Pops
    <3> QED BY <1>3, <2>1, <2>2, <3>2 DEF Turn, TurnStops
  <2>3. CASE ~(curSignal > 0)
    <3>1. Goes
      BY <1>3, <2>3 DEF Turn, Goes
    <3> QED BY <1>3, <2>1, <2>3, <3>1 DEF Turn, TurnGoes
  <2> QED BY <2>2, <2>3
<1>4. CASE EndOfDir
  <2> DEFINE ret == IF Failed(Frame.save) THEN -1 ELSE 0
  <2>1. Returns(Callers, ret)
    BY <1>4 DEF EndOfDir
  <2> HIDE DEF ret
  <2>2. Pops /\ (pc' = "printed" => ret = 0)
    BY <1>4, <2>1, ReturnsIs DEF EndOfDir, Pops
  <2>3. pc' = "printed" => Frame.save = errno \/ errno = "EACCES"
    BY <2>2 DEF ret, Failed
  <2> QED BY <1>4, <2>2, <2>3 DEF EndOfDir, EndStep
<1>5. CASE Sigint
  BY <1>5 DEF Sigint, SignalStep
<1>6. CASE UNCHANGED vars
  BY <1>6 DEF vars, input
<1> QED BY <1>1, <1>2, <1>3, <1>4, <1>5, <1>6, <1>7 DEF Next, Walk


-----------------------------------------------------------------------------
(* Types, and how deep the stack is.                                       *)

LEMMA SkippedStays == ASSUME Shape, [Next]_vars
                      PROVE  skipped' \subseteq Dirs /\ errno' \in Errnos /\ curSignal' \in 0..MaxSig
<1>1. skipped \subseteq Dirs /\ errno \in Errnos /\ curSignal \in 0..MaxSig /\ called \in Dirs
  BY DEF Shape
<1>2. pc = "walk" => Frame.dir \in Dirs
  BY StackIs DEF Shape
<1>3. MaxSig \in Nat
  BY SearchAssumption
<1> USE <1>1, <1>2, <1>3
<1>4. CASE CallSkips
  BY <1>4 DEF CallSkips, Errnos
<1>5. CASE CallOpens
  BY <1>5 DEF CallOpens, Errnos
<1>6. CASE VanishStep
  BY <1>6 DEF VanishStep, Errnos, Pops
<1>7. CASE TurnStops
  BY <1>7 DEF TurnStops, Errnos, Pops
<1>8. CASE TurnGoes
  BY <1>8 DEF TurnGoes, Errnos
<1>9. CASE EndStep
  BY <1>9 DEF EndStep, Errnos
<1>10. CASE SignalStep
  BY <1>10 DEF SignalStep, Errnos
<1>11. CASE UNCHANGED vars
  BY <1>11 DEF vars, Errnos
<1> QED BY <1>4, <1>5, <1>6, <1>7, <1>8, <1>9, <1>10, <1>11, StepIs

LEMMA KidsTyped == ASSUME Shape, [Next]_vars
                   PROVE  kids' \in [KidsDomain -> Seq(Names)]
<1>1. kids \in [KidsDomain -> Seq(Names)]
  BY DEF Shape
<1>2. ASSUME pc = "walk", More, TreeStep PROVE kids' \in [KidsDomain -> Seq(Names)]
  <2>1. PathOf(Entry) \in Paths
    BY <1>2, EntryIs
  <2>2. Added(PathOf(Entry)) \in [KidsDomain -> Seq(Names)]
    BY <2>1, AddedIs
  <2> QED BY <1>1, <1>2, <2>2 DEF TreeStep
<1>3. ASSUME TurnStops \/ TurnGoes PROVE pc = "walk" /\ More /\ TreeStep
  BY <1>3 DEF TurnStops, TurnGoes, Pops, Goes
<1>4. ASSUME ~TurnStops, ~TurnGoes PROVE kids' = kids
  BY <1>4, StepIs DEF CallSkips, CallOpens, VanishStep, EndStep, SignalStep, vars
<1> QED BY <1>1, <1>2, <1>3, <1>4

(* The calls are one below the other.                                      *)
Deep(s) == \A k \in DOMAIN s : /\ s[k].next \in 1..Len(disk[s[k].dir]) + 1
                               /\ Len(s[k].dir) = Len(Top) + k - 1
Frankly(s) == /\ s # <<>> => s[1].save = "ok"

LEMMA StackTyped == ASSUME Shape, [Next]_vars
                    PROVE  /\ stack' \in Seq(Frames) /\ Deep(stack') /\ Frankly(stack') /\ called' \in Dirs
                           /\ pc' = "walk" => stack' # <<>>
                           /\ pc' \in {"printed", "failed"} => stack' = <<>>
                           /\ pc' = "call" => /\ Len(called') = Len(Top) + Len(stack')
                                              /\ stack' = <<>> => errno' = "ok"
                           /\ pc' \in {"call", "walk", "printed", "failed"}
<1>1. /\ stack \in Seq(Frames) /\ Deep(stack) /\ Frankly(stack) /\ called \in Dirs
      /\ pc = "walk" => stack # <<>>
      /\ pc \in {"printed", "failed"} => stack = <<>>
      /\ pc = "call" => /\ Len(called) = Len(Top) + Len(stack)
                        /\ stack = <<>> => errno = "ok"
      /\ pc \in {"call", "walk", "printed", "failed"}
  BY DEF Shape, Deep, Frankly
<1>2. DOMAIN stack = 1..Len(stack) /\ Len(stack) \in Nat
  BY <1>1
<1>3. ASSUME Opens PROVE Deep(stack') /\ Frankly(stack') /\ stack' # <<>> /\ stack' \in Seq(Frames)
  <2>1. /\ stack' \in Seq(Frames) /\ Len(stack') = Len(stack) + 1
        /\ \A k \in 1..Len(stack) : stack'[k] = stack[k] /\ k \in DOMAIN stack
        /\ stack'[Len(stack) + 1] = [dir |-> called, next |-> 1, save |-> errno]
    BY <1>3, OpensStack
  <2>2. DOMAIN stack' = 1..Len(stack) + 1 /\ stack' # <<>>
    BY <1>2, <2>1
  <2>3. Len(disk[called]) \in Nat /\ Len(called) = Len(Top) + Len(stack)
    BY <1>1, <1>3, DirsAre DEF Opens
  <2>4. Len(Top) \in Nat /\ Len(called) \in Nat
    BY <1>1, DirsAre DEF Paths
  <2>5. Deep(stack')
    <3> SUFFICES ASSUME NEW k \in 1..Len(stack) + 1
                 PROVE  /\ stack'[k].next \in 1..Len(disk[stack'[k].dir]) + 1
                        /\ Len(stack'[k].dir) = Len(Top) + k - 1
      BY <2>2 DEF Deep
    <3>1. CASE k \in 1..Len(stack)
      BY <1>1, <2>1, <3>1 DEF Deep
    <3>2. CASE k = Len(stack) + 1
      <4>1. stack'[k].next = 1 /\ stack'[k].dir = called
        BY <2>1, <3>2
      <4> QED BY <1>2, <2>3, <2>4, <3>2, <4>1
    <3> QED BY <1>2, <3>1, <3>2
  <2>6. Frankly(stack')
    <3>1. CASE stack = <<>>
      BY <1>1, <1>3, <2>1, <3>1 DEF Frankly, Opens
    <3>2. CASE stack # <<>>
      BY <1>1, <1>2, <2>1, <3>2 DEF Frankly
    <3> QED BY <3>1, <3>2
  <2> QED BY <2>1, <2>2, <2>5, <2>6
<1>4. ASSUME Pops
      PROVE  /\ Deep(stack') /\ Frankly(stack') /\ stack' \in Seq(Frames)
             /\ pc' = "walk" => stack' # <<>>
             /\ pc' \in {"printed", "failed"} => stack' = <<>>
             /\ pc' \in {"walk", "printed", "failed"}
  <2>1. /\ stack' \in Seq(Frames) /\ Len(stack') = Len(stack) - 1 /\ Len(stack) >= 1
        /\ \A k \in 1..Len(stack) - 1 : stack'[k] = stack[k] /\ k \in DOMAIN stack
        /\ stack' # <<>> => stack'[1] = stack[1]
    BY <1>4, PopsStack
  <2>2. DOMAIN stack' = 1..Len(stack) - 1
    BY <1>2, <2>1
  <2>3. Deep(stack')
    BY <1>1, <2>1, <2>2 DEF Deep
  <2>4. Frankly(stack')
    BY <1>1, <1>2, <2>1 DEF Frankly
  <2> QED BY <1>4, <2>1, <2>3, <2>4 DEF Pops
<1>5. ASSUME Goes PROVE Deep(stack') /\ Frankly(stack') /\ stack' # <<>> /\ stack' \in Seq(Frames)
  <2>1. /\ stack' \in Seq(Frames) /\ Len(stack') = Len(stack) /\ Len(stack) >= 1
        /\ \A k \in 1..Len(stack) - 1 : stack'[k] = stack[k]
        /\ Frame = stack[Len(stack)] /\ stack'[Len(stack)].dir = Frame.dir
        /\ stack'[Len(stack)].next = Frame.next + 1 /\ stack'[Len(stack)].save = Frame.save
        /\ Frame.next \in Nat
    BY <1>5, GoesStack
  <2>2. DOMAIN stack' = 1..Len(stack) /\ stack' # <<>>
    BY <1>2, <2>1
  <2>3. Frame.next \in 1..Len(disk[Frame.dir])
    <3>1. Frame.next \in DOMAIN disk[Frame.dir] /\ Frame.dir \in Dirs
      BY <1>1, <1>5, EntryIs, StackIs DEF Goes
    <3> QED BY <3>1, DirsAre
  <2>4. Len(disk[Frame.dir]) \in Nat
    BY <1>1, <1>5, StackIs, DirsAre DEF Goes
  <2>5. Deep(stack')
    <3> SUFFICES ASSUME NEW k \in 1..Len(stack)
                 PROVE  /\ stack'[k].next \in 1..Len(disk[stack'[k].dir]) + 1
                        /\ Len(stack'[k].dir) = Len(Top) + k - 1
      BY <2>2 DEF Deep
    <3>1. CASE k < Len(stack)
      <4>1. k \in 1..Len(stack) - 1 /\ k \in DOMAIN stack
        BY <1>2, <3>1
      <4>2. stack'[k] = stack[k]
        BY <2>1, <4>1
      <4> QED BY <1>1, <4>1, <4>2 DEF Deep
    <3>2. CASE k = Len(stack)
      <4>1. stack'[k].next = Frame.next + 1 /\ stack'[k].dir = Frame.dir
        BY <2>1, <3>2
      <4>2. Len(Frame.dir) = Len(Top) + k - 1
        BY <1>1, <1>2, <2>1, <3>2 DEF Deep
      <4>3. Frame.next + 1 \in 1..Len(disk[Frame.dir]) + 1
        BY <2>3, <2>4
      <4> QED BY <4>1, <4>2, <4>3
    <3>3. Len(stack) \in Nat
      BY <1>2
    <3> QED BY <3>1, <3>2, <3>3
  <2>6. Frankly(stack')
    BY <1>1, <1>2, <2>1 DEF Frankly
  <2> QED BY <2>1, <2>2, <2>5, <2>6
<1>6. CASE CallSkips
  BY <1>1, <1>6 DEF CallSkips
<1>7. CASE CallOpens
  BY <1>1, <1>3, <1>7 DEF CallOpens, Opens
<1>8. CASE VanishStep
  BY <1>1, <1>4, <1>8 DEF VanishStep
<1>9. CASE TurnStops
  BY <1>1, <1>4, <1>9 DEF TurnStops
<1>10. CASE TurnGoes
  <2>1. Deep(stack') /\ Frankly(stack') /\ stack' # <<>> /\ stack' \in Seq(Frames) /\ Len(stack') = Len(stack)
    BY <1>5, <1>10, GoesStack DEF TurnGoes
  <2>2. pc = "walk" /\ More
    BY <1>10 DEF TurnGoes, Goes
  <2>3. /\ Len(PathOf(Entry)) = Len(Frame.dir) + 1
        /\ IsDir(Entry) => PathOf(Entry) \in Dirs
        /\ Len(Frame.dir) = Len(Top) + Len(stack) - 1
    BY <2>2, EntryIs, StackIs
  <2>4. Len(Top) \in Nat
    BY DirsAre DEF Paths
  <2> QED BY <1>1, <1>2, <1>10, <2>1, <2>3, <2>4 DEF TurnGoes
<1>11. CASE EndStep
  BY <1>1, <1>4, <1>11 DEF EndStep
<1>12. CASE SignalStep
  BY <1>1, <1>12 DEF SignalStep
<1>13. CASE UNCHANGED vars
  BY <1>1, <1>13 DEF vars
<1> QED BY <1>6, <1>7, <1>8, <1>9, <1>10, <1>11, <1>12, <1>13, StepIs

LEMMA ShapeStep == ASSUME Shape, [Next]_vars
                   PROVE  Shape'
<1>1. /\ Dirs' = Dirs /\ KidsDomain' = KidsDomain /\ Frames' = Frames
      /\ disk' = disk /\ closed' = closed /\ opts' = opts
  BY StepIs, InputStays
<1>2. disk \in Disks /\ closed \subseteq Dirs /\ opts \in Criteria
  BY DEF Shape
<1>3. /\ disk' \in Disks /\ closed' \subseteq Dirs' /\ opts' \in Criteria
      /\ stack' \in Seq(Frames') /\ errno' \in Errnos /\ curSignal' \in 0..MaxSig
      /\ kids' \in [KidsDomain' -> Seq(Names)] /\ skipped' \subseteq Dirs' /\ called' \in Dirs'
  BY <1>1, <1>2, SkippedStays, KidsTyped, StackTyped
<1>4. \A k \in DOMAIN stack' : /\ stack'[k].next \in 1..Len(disk'[stack'[k].dir]) + 1
                               /\ Len(stack'[k].dir) = Len(Top) + k - 1
  BY <1>1, StackTyped DEF Deep
<1> QED BY <1>3, <1>4, StackTyped DEF Shape, Frankly


-----------------------------------------------------------------------------
(* The calls on the stack are on the way to the last.                      *)

LEMMA FramesAre == ASSUME Shape, NEW k \in DOMAIN stack
                   PROVE  /\ stack[k] \in Frames /\ stack[k].dir \in Dirs /\ stack[k].dir \in Paths
                          /\ k \in Nat /\ k >= 1 /\ k <= Len(stack) /\ Len(stack) \in Nat
                          /\ Len(stack[k].dir) = Len(Top) + k - 1
                          /\ Len(stack[k].dir) \in Nat /\ Len(Top) \in Nat /\ stack[k].next \in Nat
                          /\ Len(disk[stack[k].dir]) \in Nat
                          /\ stack[k].next >= 1 /\ stack[k].next <= Len(disk[stack[k].dir]) + 1
                          /\ DOMAIN disk[stack[k].dir] = 1..Len(disk[stack[k].dir])
<1>1. stack \in Seq(Frames)
  BY DEF Shape
<1>2. stack[k] \in Frames /\ k \in Nat /\ k >= 1 /\ k <= Len(stack) /\ Len(stack) \in Nat
  BY <1>1
<1>3. stack[k].dir \in Dirs /\ stack[k].next \in Nat
  BY <1>2 DEF Frames
<1>4. stack[k].dir \in Paths /\ disk[stack[k].dir] \in Seq(Entries) /\ Top \in Paths
  BY <1>3, DirsAre
<1>5. stack[k].next \in 1..Len(disk[stack[k].dir]) + 1 /\ Len(stack[k].dir) = Len(Top) + k - 1
  BY DEF Shape
<1>6. /\ Len(disk[stack[k].dir]) \in Nat /\ Len(stack[k].dir) \in Nat /\ Len(Top) \in Nat
      /\ DOMAIN disk[stack[k].dir] = 1..Len(disk[stack[k].dir])
  BY <1>4 DEF Paths
<1> QED BY <1>2, <1>3, <1>4, <1>5, <1>6

LEMMA AtBelow == ASSUME NEW f, f.dir \in Paths, NEW d \in Paths, NEW x \in Names, At(f, d)
                 PROVE  At(f, Append(d, x))
<1> DEFINE p == Append(d, x)
<1>1. p \in Paths /\ Len(p) = Len(d) + 1 /\ IsPrefix(d, p) /\ \A i \in 1..Len(d) : p[i] = d[i]
  BY PrefixAppend DEF Paths
<1>2. /\ IsPrefix(f.dir, d) /\ Len(f.dir) < Len(d) /\ f.next > 1
      /\ disk[f.dir][f.next - 1].name = d[Len(f.dir) + 1]
  BY DEF At
<1>3. Len(f.dir) \in Nat /\ Len(d) \in Nat
  BY DEF Paths
<1>4. p[Len(f.dir) + 1] = d[Len(f.dir) + 1] /\ Len(f.dir) < Len(p)
  BY <1>1, <1>2, <1>3
<1> HIDE DEF p
<1>5. IsPrefix(f.dir, p)
  BY <1>1, <1>2, PrefixTrans DEF Paths
<1>6. At(f, p)
  BY <1>2, <1>4, <1>5 DEF At
<1> QED BY <1>6 DEF p

LEMMA ChainStep == ASSUME Shape, Chain, [Next]_vars
                   PROVE  Chain'
<1>1. disk' = disk
  BY StepIs, InputStays
<1>2. /\ \A l \in DOMAIN stack : \A k \in 1..l - 1 : At(stack[k], stack[l].dir)
      /\ pc = "call" => \A k \in DOMAIN stack : At(stack[k], called)
  BY DEF Chain
<1>3. DOMAIN stack = 1..Len(stack) /\ Len(stack) \in Nat
  BY DEF Shape
<1> DEFINE New(s) == \A l \in DOMAIN s : \A k \in 1..l - 1 : At(s[k], s[l].dir)
           NewCall(s, c) == \A k \in DOMAIN s : At(s[k], c)
<1>4. New(stack') /\ (pc' = "call" => NewCall(stack', called')) => Chain'
  BY <1>1 DEF Chain, At
<1>5. ASSUME Opens PROVE New(stack')
  <2>1. /\ Len(stack') = Len(stack) + 1 /\ stack' \in Seq(Frames)
        /\ \A k \in 1..Len(stack) : stack'[k] = stack[k]
        /\ stack'[Len(stack) + 1].dir = called
    BY <1>5, OpensStack
  <2>2. DOMAIN stack' = 1..Len(stack) + 1
    BY <2>1
  <2>3. pc = "call"
    BY <1>5 DEF Opens
  <2> SUFFICES ASSUME NEW l \in 1..Len(stack) + 1, NEW k \in 1..l - 1
               PROVE  At(stack'[k], stack'[l].dir)
    BY <2>2
  <2>4. k \in DOMAIN stack /\ stack'[k] = stack[k] /\ k \in 1..l - 1
    BY <1>3, <2>1
  <2>5. CASE l = Len(stack) + 1
    BY <1>2, <2>1, <2>3, <2>4, <2>5
  <2>6. CASE l # Len(stack) + 1
    <3>1. l \in DOMAIN stack /\ stack'[l] = stack[l]
      BY <1>3, <2>1, <2>6
    <3> QED BY <1>2, <2>4, <3>1
  <2> QED BY <2>5, <2>6
<1>6. ASSUME Pops PROVE New(stack') /\ pc' # "call"
  <2>1. /\ stack' \in Seq(Frames) /\ Len(stack') = Len(stack) - 1
        /\ \A k \in 1..Len(stack) - 1 : stack'[k] = stack[k]
    BY <1>6, PopsStack
  <2>2. DOMAIN stack' = 1..Len(stack) - 1
    BY <2>1
  <2>3. ASSUME NEW l \in 1..Len(stack) - 1, NEW k \in 1..l - 1
        PROVE  At(stack'[k], stack'[l].dir)
    <3>1. l \in DOMAIN stack /\ stack'[l] = stack[l] /\ stack'[k] = stack[k]
      BY <1>3, <2>1
    <3> QED BY <1>2, <3>1
  <2>4. pc' # "call"
    BY <1>6 DEF Pops
  <2> QED BY <2>2, <2>3, <2>4
<1>7. ASSUME Goes PROVE New(stack') /\ NewCall(stack', PathOf(Entry))
  <2>0. pc = "walk" /\ More
    BY <1>7 DEF Goes
  <2>1. /\ Len(stack') = Len(stack) /\ stack' \in Seq(Frames) /\ Len(stack) >= 1
        /\ \A k \in 1..Len(stack) - 1 : stack'[k] = stack[k]
        /\ Frame = stack[Len(stack)] /\ stack'[Len(stack)].dir = Frame.dir
        /\ stack'[Len(stack)].next = Frame.next + 1
    BY <1>7, GoesStack
  <2>2. DOMAIN stack' = 1..Len(stack)
    BY <2>1
  <2>3. ASSUME NEW l \in 1..Len(stack), NEW k \in 1..l - 1
        PROVE  At(stack'[k], stack'[l].dir)
    <3>1. stack'[k] = stack[k] /\ stack'[l].dir = stack[l].dir /\ l \in DOMAIN stack
      BY <1>3, <2>1
    <3> QED BY <1>2, <3>1
  <2>4. ASSUME NEW k \in 1..Len(stack)
        PROVE  At(stack'[k], PathOf(Entry))
    <3>1. /\ Entry.name \in Names /\ Frame.dir \in Paths /\ PathOf(Entry) = Append(Frame.dir, Entry.name)
          /\ Entry = disk[Frame.dir][Frame.next]
          /\ Len(PathOf(Entry)) = Len(Frame.dir) + 1 /\ PathOf(Entry)[Len(Frame.dir) + 1] = Entry.name
          /\ IsPrefix(Frame.dir, PathOf(Entry)) /\ Len(Frame.dir) \in Nat
      BY <2>0, EntryIs
    <3>2. CASE k \in 1..Len(stack) - 1
      <4>1. k \in 1..Len(stack) - 1 /\ Len(stack) \in DOMAIN stack /\ k \in DOMAIN stack
        BY <1>3, <2>1, <3>2
      <4>2. At(stack[k], Frame.dir) /\ stack[k].dir \in Paths
        BY <1>2, <2>1, <4>1, FramesAre
      <4>3. At(stack[k], PathOf(Entry))
        BY <3>1, <4>2, AtBelow
      <4> QED BY <2>1, <4>1, <4>3
    <3>3. CASE k = Len(stack)
      <4>1. Frame.next \in Nat /\ Frame.next >= 1
        <5>1. k \in DOMAIN stack
          BY <1>3
        <5> QED BY <2>1, <3>3, <5>1, FramesAre
      <4>2. stack'[k].dir = Frame.dir /\ stack'[k].next = Frame.next + 1
        BY <2>1, <3>3
      <4>3. stack'[k].next - 1 = Frame.next /\ stack'[k].next > 1
        BY <4>1, <4>2
      <4> QED BY <3>1, <4>2, <4>3 DEF At
    <3>4. Len(stack) \in Nat
      BY <1>3
    <3> QED BY <3>2, <3>3, <3>4
  <2> QED BY <2>2, <2>3, <2>4
<1> HIDE DEF New, NewCall
<1>8. New(stack)
  BY <1>2 DEF New
<1>9. pc = "call" => NewCall(stack, called)
  BY <1>2 DEF NewCall
<1>10. CASE CallSkips
  BY <1>4, <1>8, <1>10 DEF CallSkips, Shape
<1>11. CASE CallOpens
  BY <1>4, <1>5, <1>11 DEF CallOpens, Opens
<1>12. CASE VanishStep
  BY <1>4, <1>6, <1>12 DEF VanishStep
<1>13. CASE TurnStops
  BY <1>4, <1>6, <1>13 DEF TurnStops
<1>14. CASE TurnGoes
  BY <1>4, <1>7, <1>14 DEF TurnGoes
<1>15. CASE EndStep
  BY <1>4, <1>6, <1>15 DEF EndStep
<1>16. CASE SignalStep
  BY <1>4, <1>8, <1>9, <1>16 DEF SignalStep
<1>17. CASE UNCHANGED vars
  BY <1>4, <1>8, <1>9, <1>17 DEF vars
<1> QED BY <1>10, <1>11, <1>12, <1>13, <1>14, <1>15, <1>16, <1>17, StepIs


-----------------------------------------------------------------------------
(* Nothing that is wanted is lost.                                         *)

LEMMA KidsStep ==
  ASSUME Shape, [Next]_vars
  PROVE  /\ DOMAIN kids' = KidsDomain
         /\ \/ kids' = kids
            \/ /\ pc = "walk" /\ More /\ Validate(Entry) /\ kids' = Added(PathOf(Entry))
               /\ PathOf(Entry) \in Paths
<1>1. kids' \in [KidsDomain -> Seq(Names)]
  BY KidsTyped
<1>2. ASSUME TurnStops \/ TurnGoes
      PROVE  \/ kids' = kids
             \/ /\ pc = "walk" /\ More /\ Validate(Entry) /\ kids' = Added(PathOf(Entry))
                /\ PathOf(Entry) \in Paths
  <2>1. pc = "walk" /\ More /\ TreeStep
    BY <1>2 DEF TurnStops, TurnGoes, Pops, Goes
  <2>2. PathOf(Entry) \in Paths
    BY <2>1, EntryIs
  <2> QED BY <2>1, <2>2 DEF TreeStep
<1>3. ASSUME ~TurnStops, ~TurnGoes PROVE kids' = kids
  BY <1>3, StepIs DEF CallSkips, CallOpens, VanishStep, EndStep, SignalStep, vars
<1> QED BY <1>1, <1>2, <1>3

LEMMA NodesAre == ASSUME NEW p
                  PROVE  p \in Nodes <=> \E q \in DOMAIN kids : \E m \in DOMAIN kids[q] : p = Append(q, kids[q][m])
  BY DEF Nodes

LEMMA NodesGrow == ASSUME Shape, [Next]_vars, NEW p \in Nodes
                   PROVE  p \in Nodes'
<1>1. PICK q \in DOMAIN kids : \E m \in DOMAIN kids[q] : p = Append(q, kids[q][m])
  BY NodesAre
<1>2. PICK m \in DOMAIN kids[q] : p = Append(q, kids[q][m])
  BY <1>1
<1>3. q \in KidsDomain /\ kids[q] \in Seq(Names)
  BY KidsDomainIs
<1>4. m \in DOMAIN kids'[q] /\ kids'[q][m] = kids[q][m]
  <2>1. CASE kids' = kids
    BY <2>1
  <2>2. CASE kids' = Added(PathOf(Entry)) /\ PathOf(Entry) \in Paths
    <3>1. kids'[q] = kids[q] \/ \E x : kids'[q] = Append(kids[q], x)
      BY <1>3, <2>2, AddedIs
    <3> QED BY <1>3, <3>1
  <2> QED BY <2>1, <2>2, KidsStep
<1> QED BY <1>2, <1>3, <1>4, KidsStep DEF Nodes

LEMMA NodeAdded == ASSUME Shape, Shape', UNCHANGED input, pc = "walk", More, kids' = Added(PathOf(Entry))
                   PROVE  PathOf(Entry) \in Nodes'
<1> DEFINE d == Frame.dir
<1>1. /\ d \in Paths /\ PathOf(Entry) \in Paths /\ IsPrefix(d, PathOf(Entry)) /\ Len(d) \in Nat
      /\ Len(PathOf(Entry)) = Len(d) + 1 /\ PathOf(Entry)[Len(d) + 1] = Entry.name
      /\ PathOf(Entry) = Append(d, Entry.name) /\ stack # <<>> /\ Entry.name \in Names
  BY EntryIs DEF PathOf, Entry
<1>2. d \in KidsDomain /\ kids[d] \in Seq(Names)
  BY <1>1, StackIs, KidsDomainIs
<1>3. kids'[d] = IF Comes(d, PathOf(Entry)) THEN Append(kids[d], Entry.name) ELSE kids[d]
  BY <1>1, <1>2, AddedIs
<1>4. \E m \in DOMAIN kids'[d] : kids'[d][m] = Entry.name
  <2>1. CASE Comes(d, PathOf(Entry))
    <3>1. kids'[d] = Append(kids[d], Entry.name)
      BY <1>3, <2>1
    <3>2. Len(kids[d]) + 1 \in DOMAIN kids'[d] /\ kids'[d][Len(kids[d]) + 1] = Entry.name
      BY <1>1, <1>2, <3>1
    <3> QED BY <3>2
  <2>2. CASE ~Comes(d, PathOf(Entry))
    <3>1. \E m \in DOMAIN kids[d] : kids[d][m] = Entry.name
      BY <1>1, <2>2 DEF Comes
    <3> QED BY <1>3, <2>2, <3>1
  <2> QED BY <2>1, <2>2
<1>5. d \in DOMAIN kids'
  <2>1. KidsDomain' = KidsDomain
    BY InputStays
  <2> QED BY <1>2, <2>1 DEF Shape
<1> QED BY <1>1, <1>4, <1>5 DEF Nodes

(* Every directory on the way to a file has an entry for it.               *)
LEMMA WayToFile ==
  ASSUME Shape, NEW d \in Dirs, NEW i \in DOMAIN disk[d], NEW q \in Paths, Len(Top) <= Len(q),
         IsPrefix(q, Append(d, disk[d][i].name)), Len(q) <= Len(d)
  PROVE  /\ q \in Dirs
         /\ \E j \in DOMAIN disk[q] : disk[q][j].name = Append(d, disk[d][i].name)[Len(q) + 1]
<1> DEFINE x == disk[d][i].name
           p == Append(d, x)
<1>1. d \in Paths /\ x \in Names
  BY DirsAre, EntriesAre
<1>2. p \in Paths /\ Len(p) = Len(d) + 1 /\ p[Len(d) + 1] = x /\ \A k \in 1..Len(d) : p[k] = d[k]
  BY <1>1, PrefixAppend DEF Paths
<1>3. IsPrefix(q, d)
  BY <1>1, PrefixOfAppend DEF Paths
<1>4. q \in Dirs
  BY <1>3, OnTheWayAre
<1>5. CASE Len(q) = Len(d)
  <2>1. q = d
    BY <1>1, <1>3, <1>5, PrefixSame DEF Paths
  <2> QED BY <1>2, <1>4, <2>1
<1>6. CASE Len(q) < Len(d)
  <2>1. \E j \in DOMAIN disk[q] : disk[q][j].name = d[Len(q) + 1]
    BY <1>3, <1>6, OnTheWayAre
  <2>2. p[Len(q) + 1] = d[Len(q) + 1]
    BY <1>1, <1>2, <1>6 DEF Paths
  <2> QED BY <1>4, <2>1, <2>2
<1>7. Len(q) \in Nat /\ Len(d) \in Nat
  BY <1>1 DEF Paths
<1> QED BY <1>5, <1>6, <1>7

LEMMA WayToAccepted ==
  ASSUME Shape, NEW p \in Accepted
  PROVE  /\ p \in Paths /\ Len(p) \in Nat
         /\ \A q \in Paths : Len(Top) <= Len(q) /\ IsPrefix(q, p) /\ Len(q) < Len(p) =>
              q \in Dirs /\ \E j \in DOMAIN disk[q] : disk[q][j].name = p[Len(q) + 1]
<1>1. PICK d \in Dirs : \E i \in DOMAIN disk[d] : p = Append(d, disk[d][i].name)
  BY AcceptedAre
<1>2. PICK i \in DOMAIN disk[d] : p = Append(d, disk[d][i].name)
  BY <1>1
<1>3. d \in Paths /\ disk[d][i].name \in Names
  BY DirsAre, EntriesAre
<1>4. p \in Paths /\ Len(p) = Len(d) + 1 /\ Len(d) \in Nat
  BY <1>2, <1>3, PrefixAppend DEF Paths
<1>5. ASSUME NEW q \in Paths, Len(Top) <= Len(q), IsPrefix(q, p), Len(q) < Len(p)
      PROVE  q \in Dirs /\ \E j \in DOMAIN disk[q] : disk[q][j].name = p[Len(q) + 1]
  <2>1. Len(q) <= Len(d)
    BY <1>4, <1>5 DEF Paths
  <2> QED BY <1>2, <1>5, <2>1, WayToFile
<1> QED BY <1>4, <1>5


LEMMA CompleteStep == ASSUME Shape, Shape', Complete, [Next]_vars
                      PROVE  Complete'
<1>1. /\ UNCHANGED input /\ disk' = disk /\ Accepted' = Accepted
  BY StepIs, InputStays
<1> SUFFICES ASSUME NEW p \in Accepted
             PROVE  (p \in Nodes \/ GivenUp(p) \/ ToCome(p))'
  BY <1>1 DEF Complete
<1> DEFINE InStack(s) == \E k \in DOMAIN s : Before(s[k], p)
           InCall(c) == IsPrefix(c, p) /\ Len(c) < Len(p)
<1>2. p \in Nodes => p \in Nodes'
  BY NodesGrow
<1>3. GivenUp(p) => GivenUp(p)'
  <2>1. skipped \subseteq skipped'
    BY StepIs DEF CallSkips, CallOpens, VanishStep, TurnStops, TurnGoes, EndStep, SignalStep, vars
  <2> QED BY <2>1 DEF GivenUp
<1>4. ToCome(p) => (pc = "call" /\ InCall(called)) \/ InStack(stack)
  BY DEF ToCome
<1>5. InStack(stack') => ToCome(p)'
  BY <1>1 DEF ToCome, Before
<1>6. pc' = "call" /\ InCall(called') => ToCome(p)'
  BY DEF ToCome
<1>7. /\ stack \in Seq(Frames) /\ DOMAIN stack = 1..Len(stack) /\ Len(stack) \in Nat
      /\ Len(Top) \in Nat
  BY DirsAre DEF Shape, Paths
<1>8. p \in Paths /\ Len(p) \in Nat
  BY WayToAccepted
<1> HIDE DEF InCall
<1>9. ASSUME Opens, InStack(stack) \/ InCall(called) PROVE InStack(stack')
  <2>1. /\ Len(stack') = Len(stack) + 1 /\ stack' \in Seq(Frames)
        /\ \A k \in 1..Len(stack) : stack'[k] = stack[k]
        /\ stack'[Len(stack) + 1] = [dir |-> called, next |-> 1, save |-> errno]
    BY <1>9, OpensStack
  <2>2. DOMAIN stack' = 1..Len(stack) + 1
    BY <2>1
  <2>3. CASE InStack(stack)
    BY <1>7, <2>1, <2>2, <2>3
  <2>4. CASE InCall(called)
    <3>1. called \in Dirs /\ called \in Paths /\ Len(Top) <= Len(called) /\ disk[called] \in Seq(Entries)
      BY DirsAre DEF Shape
    <3>2. \E j \in DOMAIN disk[called] : disk[called][j].name = p[Len(called) + 1]
      BY <2>4, <3>1, WayToAccepted DEF InCall
    <3>3. DOMAIN disk[called] = 1..Len(disk[called])
      BY <3>1
    <3> DEFINE f == [dir |-> called, next |-> 1, save |-> errno]
    <3>4. f.dir = called /\ f.next = 1
      OBVIOUS
    <3> HIDE DEF f
    <3>5. Before(f, p)
      BY <2>4, <3>2, <3>3, <3>4 DEF Before, InCall
    <3>6. Len(stack) + 1 \in DOMAIN stack'
      BY <1>7, <2>2
    <3> QED BY <2>1, <3>5, <3>6 DEF f
  <2> QED BY <1>9, <2>3, <2>4
<1>10. ASSUME Pops, InStack(stack) PROVE InStack(stack') \/ Before(Frame, p)
  <2>1. /\ stack' \in Seq(Frames) /\ Len(stack') = Len(stack) - 1
        /\ \A k \in 1..Len(stack) - 1 : stack'[k] = stack[k]
    BY <1>10, PopsStack
  <2>2. DOMAIN stack' = 1..Len(stack) - 1
    BY <2>1
  <2>3. PICK k \in 1..Len(stack) : Before(stack[k], p)
    BY <1>7, <1>10
  <2>4. CASE k = Len(stack)
    BY <2>3, <2>4 DEF Frame, Last
  <2>5. CASE k # Len(stack)
    <3>0. Len(stack) \in Nat
      BY <1>7
    <3>1. k \in 1..Len(stack) - 1
      BY <2>5, <3>0
    <3> QED BY <2>1, <2>2, <2>3, <3>1
  <2> QED BY <2>4, <2>5
<1>11. ASSUME Before(Frame, p) PROVE IsPrefix(Frame.dir, p)
  BY <1>11 DEF Before
<1>12. ASSUME TurnGoes, InStack(stack)
       PROVE  \/ p \in Nodes'
              \/ InStack(stack')
              \/ pc' = "call" /\ InCall(called')
  <2>0. Goes /\ pc = "walk" /\ More
    BY <1>12 DEF TurnGoes, Goes
  <2>1. /\ stack' \in Seq(Frames) /\ Len(stack') = Len(stack) /\ Len(stack) >= 1
        /\ \A k \in 1..Len(stack) - 1 : stack'[k] = stack[k]
        /\ Frame = stack[Len(stack)] /\ stack'[Len(stack)].dir = Frame.dir
        /\ stack'[Len(stack)].next = Frame.next + 1 /\ Frame.next \in Nat
    BY <2>0, GoesStack
  <2>2. DOMAIN stack' = 1..Len(stack)
    BY <2>1
  <2>3. PICK k \in 1..Len(stack) : Before(stack[k], p)
    BY <1>7, <1>12
  <2>4. CASE k # Len(stack)
    <3>0. Len(stack) \in Nat
      BY <1>7
    <3>1. k \in 1..Len(stack) - 1
      BY <2>4, <3>0
    <3> QED BY <2>1, <2>2, <2>3, <3>1
  <2>5. CASE k = Len(stack)
    <3>1. /\ IsPrefix(Frame.dir, p) /\ Len(Frame.dir) < Len(p)
          /\ \E j \in Frame.next..Len(disk[Frame.dir]) : disk[Frame.dir][j].name = p[Len(Frame.dir) + 1]
      BY <2>1, <2>3, <2>5 DEF Before
    <3>2. PICK j \in Frame.next..Len(disk[Frame.dir]) : disk[Frame.dir][j].name = p[Len(Frame.dir) + 1]
      BY <3>1
    <3>3. stack # <<>> /\ Frame.dir \in Dirs /\ Frame.dir \in Paths /\ Len(disk[Frame.dir]) \in Nat
      BY <2>0, EntryIs, StackIs, DirsAre
    <3>4. CASE j # Frame.next
      <4>1. j \in Frame.next + 1..Len(disk[Frame.dir])
        BY <2>1, <3>2, <3>3, <3>4
      <4>2. Before(stack'[Len(stack)], p)
        BY <2>1, <3>1, <3>2, <4>1 DEF Before
      <4> QED BY <1>7, <2>1, <2>2, <4>2
    <3>5. CASE j = Frame.next
      <4> DEFINE q == PathOf(Entry)
      <4>1. /\ q \in Paths /\ q = Append(Frame.dir, p[Len(Frame.dir) + 1]) /\ Len(q) = Len(Frame.dir) + 1
            /\ q = Append(Frame.dir, disk[Frame.dir][Frame.next].name)
            /\ Frame.next \in DOMAIN disk[Frame.dir] /\ Entry = disk[Frame.dir][Frame.next]
            /\ IsDir(Entry) <=> q \in Dirs
        BY <2>0, <3>2, <3>5, EntryIs
      <4>2. IsPrefix(q, p)
        BY <1>8, <3>1, <3>3, <4>1, PrefixOneMore DEF Paths
      <4> HIDE DEF q
      <4>3. CASE Len(q) = Len(p)
        <5>1. q = p
          BY <1>8, <4>1, <4>2, <4>3, PrefixSame DEF Paths
        <5>2. Validate(EntryAt(p))
          BY DEF Accepted
        <5>3. EntryAt(p) = Entry
          <6>1. Frame.dir \in Dirs /\ p = Append(Frame.dir, disk[Frame.dir][Frame.next].name)
            BY <3>3, <4>1, <5>1
          <6>2. EntryAt(p) = disk[Frame.dir][Frame.next]
            BY <4>1, <6>1, EntryAtIs
          <6> QED BY <4>1, <6>2
        <5>4. kids' = Added(PathOf(Entry))
          BY <1>12, <5>2, <5>3 DEF TurnGoes, TreeStep
        <5>5. PathOf(Entry) \in Nodes'
          BY <1>1, <2>0, <5>4, NodeAdded
        <5> QED BY <5>1, <5>5 DEF q
      <4>4. CASE Len(q) # Len(p)
        <5>0. Len(q) \in Nat /\ Len(q) <= Len(p)
          <6>1. q \in Paths
            BY <4>1
          <6> QED BY <4>2, <6>1 DEF IsPrefix, Paths
        <5>1. Len(q) < Len(p)
          BY <1>8, <4>4, <5>0
        <5>2. Len(Top) <= Len(q)
          <6>1. Len(Top) <= Len(Frame.dir) /\ Len(Frame.dir) \in Nat
            BY <3>3, DirsAre DEF Paths
          <6> QED BY <1>7, <4>1, <6>1
        <5>3. q \in Dirs
          BY <4>1, <4>2, <5>1, <5>2, WayToAccepted
        <5>4. pc' = "call" /\ called' = q
          BY <1>12, <4>1, <5>3 DEF TurnGoes, q
        <5> QED BY <4>2, <5>1, <5>4 DEF InCall
      <4> QED BY <4>3, <4>4
    <3> QED BY <3>4, <3>5
  <2> QED BY <2>4, <2>5
<1> HIDE DEF InStack
<1>13. CASE CallSkips
  <2>1. InCall(called) => GivenUp(p)'
    BY <1>13 DEF CallSkips, InCall, GivenUp
  <2>2. InStack(stack) => InStack(stack')
    BY <1>13 DEF CallSkips
  <2> QED BY <1>2, <1>3, <1>4, <1>5, <2>1, <2>2 DEF Complete
<1>14. CASE CallOpens
  BY <1>2, <1>3, <1>4, <1>5, <1>9, <1>14 DEF CallOpens, Complete
<1>15. CASE VanishStep
  <2>1. pc # "call" /\ (Before(Frame, p) => GivenUp(p)')
    BY <1>11, <1>15 DEF VanishStep, Pops, GivenUp
  <2> QED BY <1>2, <1>3, <1>4, <1>5, <1>10, <1>15, <2>1 DEF VanishStep, Complete
<1>16. CASE TurnStops
  <2>1. pc # "call" /\ (Before(Frame, p) => GivenUp(p)')
    BY <1>11, <1>16 DEF TurnStops, Pops, GivenUp
  <2> QED BY <1>2, <1>3, <1>4, <1>5, <1>10, <1>16, <2>1 DEF TurnStops, Complete
<1>17. CASE TurnGoes
  <2>1. pc # "call"
    BY <1>17 DEF TurnGoes, Goes
  <2> QED BY <1>2, <1>3, <1>4, <1>5, <1>6, <1>12, <1>17, <2>1 DEF Complete
<1>18. CASE EndStep
  <2>1. pc # "call" /\ Pops /\ ~More /\ stack # <<>>
    BY <1>18 DEF EndStep, Pops, Shape
  <2>2. ~Before(Frame, p)
    <3>1. Frame.next \in Nat /\ Len(disk[Frame.dir]) \in Nat
      BY <2>1, StackIs, DirsAre
    <3>2. Frame.next..Len(disk[Frame.dir]) = {}
      BY <2>1, <3>1 DEF More
    <3> QED BY <3>2 DEF Before
  <2> QED BY <1>2, <1>3, <1>4, <1>5, <1>10, <2>1, <2>2 DEF Complete
<1>19. CASE SignalStep
  <2>1. InStack(stack) => InStack(stack')
    BY <1>19 DEF SignalStep
  <2>2. pc = "call" /\ InCall(called) => pc' = "call" /\ InCall(called')
    BY <1>19 DEF SignalStep
  <2> QED BY <1>2, <1>3, <1>4, <1>5, <1>6, <2>1, <2>2 DEF Complete
<1>20. CASE UNCHANGED vars
  <2>1. InStack(stack) => InStack(stack')
    BY <1>20 DEF vars
  <2>2. pc = "call" /\ InCall(called) => pc' = "call" /\ InCall(called')
    BY <1>20 DEF vars
  <2> QED BY <1>2, <1>3, <1>4, <1>5, <1>6, <2>1, <2>2 DEF Complete
<1> QED BY <1>13, <1>14, <1>15, <1>16, <1>17, <1>18, <1>19, <1>20, StepIs


-----------------------------------------------------------------------------
(* The lists of siblings.                                                  *)

LEMMA DirsHaveEntries == ASSUME Shape, NEW d \in Dirs
                         PROVE  /\ d \in Paths /\ Len(d) \in Nat /\ Len(disk[d]) \in Nat
                                /\ DOMAIN disk[d] = 1..Len(disk[d])
                                /\ kids[d] \in Seq(Names) /\ d \in KidsDomain
<1>1. d \in Seq(Names) /\ disk[d] \in Seq(Entries)
  BY DirsAre DEF Paths
<1>2. Len(d) \in Nat /\ Len(disk[d]) \in Nat /\ DOMAIN disk[d] = 1..Len(disk[d])
  BY <1>1
<1>3. d \in KidsDomain
  BY KidsDomainIs
<1>4. kids[d] \in Seq(Names)
  BY <1>3, KidsDomainIs
<1> QED BY <1>1, <1>2, <1>3, <1>4 DEF Paths

(* The directories on the way to that of the last call are those on the    *)
(* stack, and add finds or makes the name of an entry in these.            *)
LEMMA StackHas == ASSUME Shape, Chain, stack # <<>>, NEW d \in Dirs, IsPrefix(d, Frame.dir)
                  PROVE  \E k \in DOMAIN stack : d = stack[k].dir
<1>1. Frame.dir \in Paths
  BY StackIs, DirsAre
<1>2. d \in Paths /\ Len(d) \in Nat /\ Len(Top) <= Len(d) /\ Len(Top) \in Nat
  BY DirsAre DEF Paths
<1>3. Len(d) <= Len(Frame.dir)
  BY DEF IsPrefix
<1>5. Len(Frame.dir) = Len(Top) + Len(stack) - 1 /\ Len(stack) \in Nat /\ DOMAIN stack = 1..Len(stack)
  BY StackIs
<1> DEFINE k == Len(d) - Len(Top) + 1
<1>6. k \in 1..Len(stack)
  BY <1>2, <1>3, <1>5
<1>7. k \in DOMAIN stack
  BY <1>5, <1>6
<1>8. Len(stack[k].dir) = Len(Top) + k - 1 /\ stack[k].dir \in Paths
  BY <1>7, FramesAre
<1>9. Len(stack[k].dir) = Len(d)
  BY <1>2, <1>8
<1> HIDE DEF k
<1>10. CASE k = Len(stack)
  <2>1. stack[k].dir = Frame.dir
    BY <1>10 DEF Frame, Last
  <2> QED BY <1>2, <1>7, <1>8, <1>9, <2>1, PrefixSame DEF Paths
<1>11. CASE k # Len(stack)
  <2>0. Len(stack) \in Nat
    BY <1>5
  <2>1. k \in 1..Len(stack) - 1 /\ Len(stack) \in 1..Len(stack)
    BY <1>6, <1>11, <2>0
  <2>2. At(stack[k], Frame.dir)
    BY <1>5, <2>1 DEF Chain, Frame, Last
  <2>3. IsPrefix(stack[k].dir, Frame.dir)
    BY <2>2 DEF At
  <2>4. stack[k].dir = d
    BY <1>1, <1>2, <1>8, <1>9, <2>3, PrefixEither DEF Paths
  <2> QED BY <1>7, <2>4
<1> QED BY <1>10, <1>11

LEMMA OnStack == ASSUME Shape, Chain, pc = "walk", More, NEW d \in Dirs,
                        IsPrefix(d, PathOf(Entry)), Len(d) < Len(PathOf(Entry))
                 PROVE  \E k \in DOMAIN stack : d = stack[k].dir
<1>1. /\ Frame.dir \in Paths /\ Entry.name \in Names /\ PathOf(Entry) = Append(Frame.dir, Entry.name)
      /\ Len(PathOf(Entry)) = Len(Frame.dir) + 1 /\ Len(Frame.dir) \in Nat /\ stack # <<>>
  BY EntryIs DEF PathOf, Entry
<1>2. d \in Paths /\ Len(d) \in Nat
  BY DirsAre DEF Paths
<1>3. Len(d) <= Len(Frame.dir)
  BY <1>1, <1>2
<1>4. IsPrefix(d, Frame.dir)
  BY <1>1, <1>2, <1>3, PrefixOfAppend DEF Paths
<1> QED BY <1>1, <1>4, StackHas

(* The name that add gives a directory on the stack is that of the entry   *)
(* its call has come to.                                                   *)
LEMMA Slot == ASSUME Shape, Chain, pc = "walk", More, NEW k \in DOMAIN stack
              PROVE  \E i \in DOMAIN disk[stack[k].dir] :
                       /\ disk[stack[k].dir][i].name = PathOf(Entry)[Len(stack[k].dir) + 1]
                       /\ k < Len(stack) => i = stack[k].next - 1
                       /\ k = Len(stack) => i = stack[k].next
<1>1. /\ Frame.dir \in Paths /\ Entry.name \in Names /\ PathOf(Entry) = Append(Frame.dir, Entry.name)
      /\ PathOf(Entry)[Len(Frame.dir) + 1] = Entry.name /\ stack # <<>>
      /\ Frame.next \in DOMAIN disk[Frame.dir] /\ Entry = disk[Frame.dir][Frame.next]
  BY EntryIs DEF PathOf, Entry
<1>2. Len(stack) \in Nat /\ Frame = stack[Len(stack)] /\ DOMAIN stack = 1..Len(stack)
  BY <1>1, StackIs
<1>3. CASE k = Len(stack)
  <2>1. stack[k] = Frame /\ ~(k < Len(stack))
    BY <1>2, <1>3
  <2>2. /\ stack[k].next \in DOMAIN disk[stack[k].dir]
        /\ disk[stack[k].dir][stack[k].next].name = PathOf(Entry)[Len(stack[k].dir) + 1]
    BY <1>1, <2>1, Zenon
  <2> QED BY <2>1, <2>2
<1>4. CASE k < Len(stack)
  <2>1. k \in 1..Len(stack) - 1 /\ Len(stack) \in DOMAIN stack
    BY <1>2, <1>4
  <2>2. At(stack[k], Frame.dir) /\ stack[k].dir \in Paths
    BY <1>2, <2>1, FramesAre DEF Chain
  <2>3. At(stack[k], PathOf(Entry))
    BY <1>1, <2>2, AtBelow
  <2>4. stack[k].next > 1 /\ disk[stack[k].dir][stack[k].next - 1].name = PathOf(Entry)[Len(stack[k].dir) + 1]
    BY <2>3 DEF At
  <2>5. stack[k].next - 1 \in DOMAIN disk[stack[k].dir]
    <3>1. stack[k].dir \in Dirs /\ stack[k].next \in 1..Len(disk[stack[k].dir]) + 1
      BY FramesAre
    <3>2. DOMAIN disk[stack[k].dir] = 1..Len(disk[stack[k].dir]) /\ Len(disk[stack[k].dir]) \in Nat
      BY <3>1, DirsHaveEntries
    <3> QED BY <2>4, <3>1, <3>2
  <2>6. k # Len(stack)
    BY <1>4, <1>2
  <2> QED BY <2>4, <2>5, <2>6
<1>5. k <= Len(stack) /\ k \in Nat /\ Len(stack) \in Nat
  BY FramesAre
<1> QED BY <1>3, <1>4, <1>5

(* A step puts at most one name at the end of a list.                      *)
LEMMA ListStep ==
  ASSUME Shape, Chain, [Next]_vars, NEW p \in KidsDomain
  PROVE  \/ kids'[p] = kids[p]
         \/ /\ pc = "walk" /\ More /\ Validate(Entry) /\ PathOf(Entry) \in Paths
            /\ kids[p] \in Seq(Names) /\ p \in Paths /\ PathOf(Entry)[Len(p) + 1] \in Names
            /\ kids'[p] = Append(kids[p], PathOf(Entry)[Len(p) + 1]) /\ Comes(p, PathOf(Entry))
            /\ DOMAIN kids[p] = 1..Len(kids[p]) /\ Len(kids[p]) \in Nat
            /\ DOMAIN kids'[p] = 1..Len(kids[p]) + 1
            /\ kids'[p][Len(kids[p]) + 1] = PathOf(Entry)[Len(p) + 1]
            /\ \A m \in 1..Len(kids[p]) : kids'[p][m] = kids[p][m]
<1>1. CASE kids' = kids
  BY <1>1
<1>2. CASE kids' # kids
  <2>1. pc = "walk" /\ More /\ Validate(Entry) /\ kids' = Added(PathOf(Entry)) /\ PathOf(Entry) \in Paths
    BY <1>2, KidsStep
  <2>2. kids'[p] = IF Comes(p, PathOf(Entry)) THEN Append(kids[p], PathOf(Entry)[Len(p) + 1]) ELSE kids[p]
    BY <2>1, AddedIs
  <2>3. kids[p] \in Seq(Names) /\ p \in Paths
    BY KidsDomainIs
  <2>4. CASE Comes(p, PathOf(Entry))
    <3> DEFINE x == PathOf(Entry)[Len(p) + 1]
    <3>1. x \in Names
      BY <2>1, <2>3, <2>4 DEF Comes, Paths
    <3> HIDE DEF x
    <3>2. kids'[p] = Append(kids[p], x)
      BY <2>2, <2>4 DEF x
    <3>3. /\ DOMAIN kids[p] = 1..Len(kids[p]) /\ Len(kids[p]) \in Nat
          /\ DOMAIN kids'[p] = 1..Len(kids[p]) + 1
          /\ kids'[p][Len(kids[p]) + 1] = x
          /\ \A m \in 1..Len(kids[p]) : kids'[p][m] = kids[p][m]
      BY <2>3, <3>1, <3>2
    <3> QED BY <2>1, <2>3, <2>4, <3>1, <3>2, <3>3 DEF x
  <2>5. CASE ~Comes(p, PathOf(Entry))
    BY <2>2, <2>5
  <2> QED BY <2>4, <2>5
<1> QED BY <1>1, <1>2

LEMMA DistinctStep == ASSUME Shape, Chain, Listed, [Next]_vars, NEW p \in KidsDomain
                      PROVE  \A m, n \in DOMAIN kids'[p] : kids'[p][m] = kids'[p][n] => m = n
<1>1. \A m, n \in DOMAIN kids[p] : kids[p][m] = kids[p][n] => m = n
  BY KidsDomainIs DEF Listed
<1>2. CASE kids'[p] = kids[p]
  BY <1>1, <1>2
<1>3. CASE kids'[p] # kids[p]
  <2>1. /\ Comes(p, PathOf(Entry)) /\ DOMAIN kids[p] = 1..Len(kids[p]) /\ Len(kids[p]) \in Nat
        /\ DOMAIN kids'[p] = 1..Len(kids[p]) + 1
        /\ kids'[p][Len(kids[p]) + 1] = PathOf(Entry)[Len(p) + 1]
        /\ \A m \in 1..Len(kids[p]) : kids'[p][m] = kids[p][m]
    BY <1>3, ListStep
  <2>2. \A m \in 1..Len(kids[p]) : kids'[p][m] # kids'[p][Len(kids[p]) + 1]
    BY <2>1 DEF Comes
  <2>3. \A m \in DOMAIN kids'[p] : m \in 1..Len(kids[p]) \/ m = Len(kids[p]) + 1
    BY <2>1
  <2> QED BY <1>1, <2>1, <2>2, <2>3
<1> QED BY <1>2, <1>3

LEMMA WantedStep == ASSUME Shape, Chain, Listed, [Next]_vars, NEW p \in KidsDomain, NEW m \in DOMAIN kids'[p]
                    PROVE  \E q \in Accepted : IsPrefix(Append(p, kids'[p][m]), q)
<1>1. \A n \in DOMAIN kids[p] : \E q \in Accepted : IsPrefix(Append(p, kids[p][n]), q)
  BY KidsDomainIs DEF Listed
<1>2. CASE kids'[p] = kids[p]
  BY <1>1, <1>2
<1>3. CASE kids'[p] # kids[p]
  <2>1. /\ pc = "walk" /\ More /\ Validate(Entry) /\ PathOf(Entry) \in Paths /\ p \in Paths
        /\ Comes(p, PathOf(Entry)) /\ DOMAIN kids[p] = 1..Len(kids[p]) /\ Len(kids[p]) \in Nat
        /\ DOMAIN kids'[p] = 1..Len(kids[p]) + 1
        /\ kids'[p][Len(kids[p]) + 1] = PathOf(Entry)[Len(p) + 1]
        /\ \A n \in 1..Len(kids[p]) : kids'[p][n] = kids[p][n]
    BY <1>3, ListStep
  <2>2. CASE m \in 1..Len(kids[p])
    BY <1>1, <2>1, <2>2
  <2>3. CASE m = Len(kids[p]) + 1
    <3>1. IsPrefix(Append(p, PathOf(Entry)[Len(p) + 1]), PathOf(Entry))
      BY <2>1, PrefixOneMore DEF Comes, Paths
    <3>2. PathOf(Entry) \in Accepted
      <4>1. /\ Frame.dir \in Dirs /\ Frame.next \in DOMAIN disk[Frame.dir]
            /\ PathOf(Entry) = Append(Frame.dir, disk[Frame.dir][Frame.next].name)
            /\ Entry = disk[Frame.dir][Frame.next]
        BY <2>1, EntryIs, StackIs
      <4> QED BY <2>1, <4>1, AcceptedAre
    <3> QED BY <2>1, <2>3, <3>1, <3>2
  <2> QED BY <2>1, <2>2, <2>3
<1> QED BY <1>2, <1>3


LEMMA OrderStep == ASSUME Shape, Chain, Listed, InOrder, [Next]_vars
                   PROVE  InOrder'
<1>1. Dirs' = Dirs /\ disk' = disk
  BY StepIs, InputStays
<1> SUFFICES ASSUME NEW d \in Dirs, NEW i \in DOMAIN disk[d], NEW j \in DOMAIN disk[d],
                    NEW m \in DOMAIN kids'[d], NEW n \in DOMAIN kids'[d],
                    disk[d][i].name = kids'[d][m], disk[d][j].name = kids'[d][n], i < j
             PROVE  m < n
  BY <1>1 DEF InOrder
<1>2. d \in KidsDomain /\ DOMAIN disk[d] = 1..Len(disk[d]) /\ Len(disk[d]) \in Nat
  BY DirsHaveEntries
<1>3. \A a, b \in DOMAIN kids[d] : disk[d][i].name = kids[d][a] /\ disk[d][j].name = kids[d][b] => a < b
  BY DEF InOrder
<1>4. CASE kids'[d] = kids[d]
  BY <1>3, <1>4
<1>5. CASE kids'[d] # kids[d]
  <2> DEFINE x == PathOf(Entry)[Len(d) + 1]
  <2>1. /\ pc = "walk" /\ More
        /\ Comes(d, PathOf(Entry)) /\ DOMAIN kids[d] = 1..Len(kids[d]) /\ Len(kids[d]) \in Nat
        /\ DOMAIN kids'[d] = 1..Len(kids[d]) + 1 /\ kids'[d][Len(kids[d]) + 1] = x
        /\ \A a \in 1..Len(kids[d]) : kids'[d][a] = kids[d][a]
    BY <1>2, <1>5, ListStep
  <2>2. PICK k \in DOMAIN stack : d = stack[k].dir
    BY <2>1, OnStack DEF Comes
  <2>3. PICK s \in DOMAIN disk[d] : /\ disk[d][s].name = x
                                    /\ k < Len(stack) => s = stack[k].next - 1
                                    /\ k = Len(stack) => s = stack[k].next
    BY <2>1, <2>2, Slot
  <2>4. s >= stack[k].next - 1 /\ stack[k].next \in Nat
    BY <1>2, <2>2, <2>3, FramesAre
  <2> HIDE DEF x
  <2>5. CASE m \in 1..Len(kids[d]) /\ n \in 1..Len(kids[d])
    BY <1>3, <2>1, <2>5
  <2>6. CASE m \in 1..Len(kids[d]) /\ n = Len(kids[d]) + 1
    BY <2>1, <2>6
  <2>7. CASE m = Len(kids[d]) + 1 /\ n \in 1..Len(kids[d])
    <3>1. i = s
      <4>1. disk[d][i].name = disk[d][s].name
        BY <2>1, <2>3, <2>7
      <4> QED BY <4>1, EntriesAre
    <3> DEFINE Known(e) == \A a \in DOMAIN kids[e] :
                             \E t \in 1..stack[k].next - 1 : disk[e][t].name = kids[e][a]
    <3>7. Known(stack[k].dir)
      BY DEF Listed
    <3>8. Known(d)
      BY <2>2, <3>7, Zenon
    <3>2. PICK t \in 1..stack[k].next - 1 : disk[d][t].name = kids[d][n]
      BY <2>1, <2>7, <3>8
    <3>3. disk[d][t].name = disk[d][j].name
      <4>1. kids'[d][n] = kids[d][n]
        BY <2>1, <2>7
      <4> QED BY <3>2, <4>1
    <3>4. t \in DOMAIN disk[d]
      <4>1. stack[k].next \in 1..Len(disk[stack[k].dir]) + 1
        BY FramesAre
      <4>2. stack[k].next \in 1..Len(disk[d]) + 1
        BY <2>2, <4>1, Zenon
      <4> QED BY <1>2, <3>2, <4>2
    <3>5. t = j
      BY <3>3, <3>4, EntriesAre
    <3>6. i >= j
      BY <1>2, <2>4, <3>1, <3>2, <3>5
    <3> QED BY <1>2, <3>6
  <2>8. CASE m = Len(kids[d]) + 1 /\ n = Len(kids[d]) + 1
    <3>1. i = j
      BY <2>1, <2>8, EntriesAre
    <3> QED BY <1>2, <3>1
  <2>9. (m \in 1..Len(kids[d]) \/ m = Len(kids[d]) + 1) /\ (n \in 1..Len(kids[d]) \/ n = Len(kids[d]) + 1)
    BY <2>1
  <2> QED BY <2>5, <2>6, <2>7, <2>8, <2>9
<1> QED BY <1>4, <1>5

(* Every name in the list of a directory on the stack is one its call has  *)
(* come to.                                                                *)
LEMMA ListedStep ==
  ASSUME Shape, Chain, Listed, [Next]_vars, NEW k \in DOMAIN stack, NEW m \in DOMAIN kids'[stack[k].dir]
  PROVE  \E i \in DOMAIN disk[stack[k].dir] :
           /\ disk[stack[k].dir][i].name = kids'[stack[k].dir][m]
           /\ i <= stack[k].next /\ (i = stack[k].next => k = Len(stack))
<1> DEFINE d == stack[k].dir
<1>1. d \in Dirs /\ d \in KidsDomain /\ DOMAIN disk[d] = 1..Len(disk[d]) /\ Len(disk[d]) \in Nat
  BY FramesAre, DirsHaveEntries
<1>2. stack[k].next \in Nat /\ stack[k].next <= Len(disk[d]) + 1 /\ k <= Len(stack) /\ k \in Nat /\ Len(stack) \in Nat
  BY FramesAre
<1>3. ASSUME NEW a \in DOMAIN kids[d], kids'[d][m] = kids[d][a]
      PROVE  \E i \in DOMAIN disk[d] : disk[d][i].name = kids'[d][m] /\ i <= stack[k].next - 1
  <2>1. PICK i \in 1..stack[k].next - 1 : disk[d][i].name = kids[d][a]
    BY DEF Listed
  <2>2. i \in DOMAIN disk[d] /\ i <= stack[k].next - 1
    BY <1>1, <1>2, <2>1
  <2> QED BY <1>3, <2>1, <2>2
<1>4. CASE kids'[d] = kids[d]
  <2>1. PICK i \in DOMAIN disk[d] : disk[d][i].name = kids'[d][m] /\ i <= stack[k].next - 1
    BY <1>3, <1>4
  <2>2. i <= stack[k].next /\ i # stack[k].next
    BY <1>1, <1>2, <2>1
  <2> QED BY <2>1, <2>2
<1>5. CASE kids'[d] # kids[d]
  <2>1. /\ pc = "walk" /\ More
        /\ DOMAIN kids[d] = 1..Len(kids[d]) /\ Len(kids[d]) \in Nat
        /\ DOMAIN kids'[d] = 1..Len(kids[d]) + 1 /\ kids'[d][Len(kids[d]) + 1] = PathOf(Entry)[Len(d) + 1]
        /\ \A a \in 1..Len(kids[d]) : kids'[d][a] = kids[d][a]
    BY <1>1, <1>5, ListStep
  <2>2. CASE m \in 1..Len(kids[d])
    <3>1. PICK i \in DOMAIN disk[d] : disk[d][i].name = kids'[d][m] /\ i <= stack[k].next - 1
      BY <1>3, <2>1, <2>2
    <3>2. i <= stack[k].next /\ i # stack[k].next
      BY <1>1, <1>2, <3>1
    <3> QED BY <3>1, <3>2
  <2>3. CASE m = Len(kids[d]) + 1
    <3>1. PICK i \in DOMAIN disk[d] : /\ disk[d][i].name = PathOf(Entry)[Len(d) + 1]
                                      /\ k < Len(stack) => i = stack[k].next - 1
                                      /\ k = Len(stack) => i = stack[k].next
      BY <2>1, Slot
    <3>2. i <= stack[k].next /\ (i = stack[k].next => k = Len(stack))
      BY <1>1, <1>2, <3>1
    <3> QED BY <2>1, <2>3, <3>1, <3>2
  <2> QED BY <2>1, <2>2, <2>3
<1> QED BY <1>4, <1>5


LEMMA KnownStep ==
  ASSUME Shape, Shape', Chain, Listed, [Next]_vars, NEW k \in DOMAIN stack', NEW m \in DOMAIN kids'[stack'[k].dir]
  PROVE  \E i \in 1..stack'[k].next - 1 : disk[stack'[k].dir][i].name = kids'[stack'[k].dir][m]
<1>0. /\ stack \in Seq(Frames) /\ DOMAIN stack = 1..Len(stack) /\ Len(stack) \in Nat
      /\ stack' \in Seq(Frames) /\ DOMAIN stack' = 1..Len(stack')
  BY StackTyped DEF Shape
<1> DEFINE Found(f, a) == \E i \in 1..f.next - 1 : disk[f.dir][i].name = kids'[f.dir][a]
<1>1. ASSUME k \in DOMAIN stack, stack'[k] = stack[k], k # Len(stack) \/ kids' = kids
      PROVE  Found(stack'[k], m)
  <2>1. m \in DOMAIN kids'[stack[k].dir]
    BY <1>1
  <2>2. CASE kids' = kids
    <3>1. \E i \in 1..stack[k].next - 1 : disk[stack[k].dir][i].name = kids[stack[k].dir][m]
      BY <1>1, <2>1, <2>2 DEF Listed
    <3> QED BY <1>1, <2>2, <3>1
  <2>3. CASE k # Len(stack)
    <3>1. PICK i \in DOMAIN disk[stack[k].dir] :
            /\ disk[stack[k].dir][i].name = kids'[stack[k].dir][m]
            /\ i <= stack[k].next /\ (i = stack[k].next => k = Len(stack))
      BY <1>1, <2>1, ListedStep
    <3>2. /\ stack[k].next \in Nat /\ Len(disk[stack[k].dir]) \in Nat
          /\ DOMAIN disk[stack[k].dir] = 1..Len(disk[stack[k].dir])
      BY <1>1, FramesAre
    <3>3. i \in 1..stack[k].next - 1
      BY <2>3, <3>1, <3>2
    <3> QED BY <1>1, <3>1, <3>3
  <2> QED BY <1>1, <2>2, <2>3
<1>2. ASSUME Opens, kids' = kids PROVE Found(stack'[k], m)
  <2>1. /\ Len(stack') = Len(stack) + 1
        /\ \A a \in 1..Len(stack) : stack'[a] = stack[a] /\ a \in DOMAIN stack
        /\ stack'[Len(stack) + 1] = [dir |-> called, next |-> 1, save |-> errno]
    BY <1>2, OpensStack
  <2>2. CASE k \in 1..Len(stack)
    BY <1>1, <1>2, <2>1, <2>2
  <2>3. CASE k = Len(stack) + 1
    <3>1. stack'[k].dir = called
      BY <2>1, <2>3
    <3>2. kids[called] = <<>>
      BY <1>2 DEF Listed, Untouched, Opens, Shape
    <3>3. DOMAIN kids'[stack'[k].dir] = {}
      BY <1>2, <3>1, <3>2
    <3> QED BY <3>3
  <2> QED BY <1>0, <2>1, <2>2, <2>3
<1>3. ASSUME Pops PROVE Found(stack'[k], m)
  <2>1. /\ Len(stack') = Len(stack) - 1
        /\ \A a \in 1..Len(stack) - 1 : stack'[a] = stack[a] /\ a \in DOMAIN stack
    BY <1>3, PopsStack
  <2>2. k \in 1..Len(stack) - 1
    BY <1>0, <2>1
  <2>3. k # Len(stack)
    BY <1>0, <2>2
  <2> QED BY <1>1, <2>1, <2>2, <2>3
<1>4. ASSUME Goes PROVE Found(stack'[k], m)
  <2>1. /\ Len(stack') = Len(stack) /\ \A a \in 1..Len(stack) - 1 : stack'[a] = stack[a]
        /\ Frame = stack[Len(stack)] /\ stack'[Len(stack)].dir = Frame.dir
        /\ stack'[Len(stack)].next = Frame.next + 1 /\ Frame.next \in Nat
    BY <1>4, GoesStack
  <2>2. k \in 1..Len(stack) /\ k \in DOMAIN stack
    BY <1>0, <2>1
  <2>3. CASE k = Len(stack)
    <3>1. stack'[k].dir = stack[k].dir /\ stack'[k].next = stack[k].next + 1
      BY <2>1, <2>3
    <3>2. m \in DOMAIN kids'[stack[k].dir]
      BY <3>1
    <3>3. PICK i \in DOMAIN disk[stack[k].dir] :
            disk[stack[k].dir][i].name = kids'[stack[k].dir][m] /\ i <= stack[k].next
      BY <2>2, <3>2, ListedStep
    <3>4. /\ stack[k].next \in Nat /\ Len(disk[stack[k].dir]) \in Nat
          /\ DOMAIN disk[stack[k].dir] = 1..Len(disk[stack[k].dir])
      BY <2>2, FramesAre
    <3>5. i \in 1..stack'[k].next - 1
      BY <3>1, <3>3, <3>4
    <3> QED BY <3>1, <3>3, <3>5
  <2>4. CASE k # Len(stack)
    <3>0. Len(stack) \in Nat
      BY <1>0
    <3>1. k \in 1..Len(stack) - 1
      BY <2>2, <2>4, <3>0
    <3> QED BY <1>1, <2>1, <2>2, <2>4, <3>1
  <2> QED BY <2>3, <2>4
<1>5. ASSUME stack' = stack, kids' = kids PROVE Found(stack'[k], m)
  BY <1>1, <1>5
<1> HIDE DEF Found
<1>6. Found(stack'[k], m)
  BY <1>2, <1>3, <1>4, <1>5, StepIs
     DEF CallSkips, CallOpens, VanishStep, TurnStops, TurnGoes, EndStep, SignalStep, vars
<1> QED BY <1>6 DEF Found

(* What is to come has been to come: the walk does not go back.            *)
LEMMA NeverBack ==
  ASSUME Shape, Shape', Chain, [Next]_vars, NEW d \in Dirs, Untouched(d)'
  PROVE  Untouched(d) /\ ~ (pc = "walk" /\ More /\ (Goes \/ Pops) /\ Comes(d, PathOf(Entry)))
<1>0. /\ stack \in Seq(Frames) /\ DOMAIN stack = 1..Len(stack) /\ Len(stack) \in Nat
      /\ stack' \in Seq(Frames) /\ DOMAIN stack' = 1..Len(stack') /\ disk' = disk
      /\ d \in Paths /\ Len(d) \in Nat
  BY StackTyped, StepIs, InputStays, DirsHaveEntries DEF Shape
<1> DEFINE InStack(s) == \E k \in DOMAIN s : Before(s[k], d)
           InCall(c) == IsPrefix(c, d)
<1>1. InStack(stack') \/ (pc' = "call" /\ InCall(called'))
  <2>1. InStack(stack') \/ (pc' = "call" /\ (IsPrefix(called', d) \/ d = called'))
    BY <1>0 DEF Untouched, ToCome, Before
  <2>2. IsPrefix(d, d)
    BY <1>0, PrefixSelf DEF Paths
  <2> QED BY <2>1, <2>2
<1>2. InStack(stack) => Untouched(d)
  BY DEF Untouched, ToCome
<1>3. pc = "call" /\ InCall(called) => Untouched(d)
  <2>1. called \in Paths
    BY DirsAre DEF Shape
  <2>2. IsPrefix(called, d) => Len(called) <= Len(d) /\ (Len(called) = Len(d) => called = d)
    BY <1>0, <2>1, PrefixEither, PrefixSelf DEF IsPrefix, Paths
  <2>3. Len(called) \in Nat
    BY <2>1 DEF Paths
  <2> QED BY <1>0, <2>2, <2>3 DEF Untouched, ToCome
<1>4. ASSUME Opens, InStack(stack') PROVE InStack(stack) \/ (pc = "call" /\ InCall(called))
  <2>1. /\ Len(stack') = Len(stack) + 1
        /\ \A a \in 1..Len(stack) : stack'[a] = stack[a] /\ a \in DOMAIN stack
        /\ stack'[Len(stack) + 1] = [dir |-> called, next |-> 1, save |-> errno]
    BY <1>4, OpensStack
  <2>2. PICK k \in 1..Len(stack) + 1 : Before(stack'[k], d)
    BY <1>0, <1>4, <2>1
  <2>3. CASE k \in 1..Len(stack)
    BY <2>1, <2>2, <2>3
  <2>4. CASE k = Len(stack) + 1
    BY <1>4, <2>1, <2>2, <2>4 DEF Before, Opens
  <2> QED BY <1>0, <2>3, <2>4
<1>5. ASSUME Pops, InStack(stack') PROVE InStack(stack)
  <2>1. /\ Len(stack') = Len(stack) - 1
        /\ \A a \in 1..Len(stack) - 1 : stack'[a] = stack[a] /\ a \in DOMAIN stack
    BY <1>5, PopsStack
  <2>2. PICK k \in 1..Len(stack) - 1 : Before(stack'[k], d)
    BY <1>0, <1>5, <2>1
  <2> QED BY <2>1, <2>2
<1>6. ASSUME Goes, InStack(stack') PROVE InStack(stack)
  <2>1. /\ Len(stack') = Len(stack) /\ \A a \in 1..Len(stack) - 1 : stack'[a] = stack[a]
        /\ Frame = stack[Len(stack)] /\ stack'[Len(stack)].dir = Frame.dir
        /\ stack'[Len(stack)].next = Frame.next + 1 /\ Frame.next \in Nat
    BY <1>6, GoesStack
  <2>2. PICK k \in 1..Len(stack) : Before(stack'[k], d)
    BY <1>0, <1>6, <2>1
  <2>3. CASE k = Len(stack)
    <3>1. /\ IsPrefix(Frame.dir, d) /\ Len(Frame.dir) < Len(d)
          /\ \E j \in Frame.next + 1..Len(disk[Frame.dir]) : disk[Frame.dir][j].name = d[Len(Frame.dir) + 1]
      BY <2>1, <2>2, <2>3 DEF Before
    <3>2. \A j \in Frame.next + 1..Len(disk[Frame.dir]) : j \in Frame.next..Len(disk[Frame.dir])
      BY <2>1
    <3>3. Before(Frame, d)
      BY <3>1, <3>2 DEF Before
    <3> QED BY <1>0, <2>1, <2>3, <3>3
  <2>4. CASE k # Len(stack)
    <3>0. Len(stack) \in Nat
      BY <1>0
    <3>1. k \in 1..Len(stack) - 1
      BY <2>2, <2>4, <3>0
    <3> QED BY <1>0, <2>1, <2>2, <3>1
  <2> QED BY <2>3, <2>4
<1>7. ASSUME Goes, called' = PathOf(Entry), InCall(called') PROVE InStack(stack)
  <2>1. pc = "walk" /\ More
    BY <1>7 DEF Goes
  <2>2. /\ stack # <<>> /\ Frame.next \in DOMAIN disk[Frame.dir] /\ Entry = disk[Frame.dir][Frame.next]
        /\ Frame.dir \in Paths /\ PathOf(Entry) \in Paths
        /\ Len(PathOf(Entry)) = Len(Frame.dir) + 1 /\ PathOf(Entry)[Len(Frame.dir) + 1] = Entry.name
        /\ IsPrefix(Frame.dir, PathOf(Entry)) /\ Len(Frame.dir) \in Nat
    BY <2>1, EntryIs
  <2>3. IsPrefix(PathOf(Entry), d)
    BY <1>7
  <2>4. IsPrefix(Frame.dir, d)
    BY <1>0, <2>2, <2>3, PrefixTrans DEF Paths
  <2>5. Len(Frame.dir) < Len(d)
    BY <1>0, <2>2, <2>3 DEF IsPrefix
  <2>6. d[Len(Frame.dir) + 1] = Entry.name
    <3>1. \A i \in 1..Len(PathOf(Entry)) : PathOf(Entry)[i] = d[i]
      BY <1>0, <2>2, <2>3, PrefixIs DEF Paths
    <3> QED BY <2>2, <3>1
  <2>7. Frame.next \in Frame.next..Len(disk[Frame.dir])
    BY <2>2, StackIs, DirsHaveEntries
  <2>8. Before(Frame, d)
    BY <2>2, <2>4, <2>5, <2>6, <2>7 DEF Before
  <2>9. Frame = stack[Len(stack)] /\ Len(stack) \in DOMAIN stack
    BY <2>2, StackIs
  <2> QED BY <2>8, <2>9
<1> HIDE DEF InStack, InCall
<1>8. Untouched(d)
  BY <1>1, <1>2, <1>3, <1>4, <1>5, <1>6, <1>7, StepIs
     DEF CallSkips, CallOpens, VanishStep, TurnStops, TurnGoes, EndStep, SignalStep, vars, Opens, Pops, Goes
<1>9. ASSUME pc = "walk", More, Goes \/ Pops, Comes(d, PathOf(Entry)) PROVE FALSE
  <2>1. PICK l \in DOMAIN stack : d = stack[l].dir
    BY <1>9, OnStack DEF Comes
  <2>2. /\ \A a \in 1..Len(stack) - 1 : a \in DOMAIN stack' => stack'[a] = stack[a]
        /\ DOMAIN stack' \subseteq DOMAIN stack
        /\ \A a \in DOMAIN stack' : Len(stack'[a].dir) = Len(Top) + a - 1
    <3>1. \A a \in DOMAIN stack' : Len(stack'[a].dir) = Len(Top) + a - 1
      BY DEF Shape
    <3> QED BY <1>0, <1>9, <3>1, GoesStack, PopsStack
  <2>3. ~InStack(stack')
    <3> SUFFICES ASSUME NEW k \in DOMAIN stack', Before(stack'[k], d) PROVE FALSE
      BY DEF InStack
    <3>1. Len(stack'[k].dir) < Len(d) /\ Len(d) = Len(Top) + l - 1 /\ Len(Top) \in Nat /\ l \in Nat
          /\ l <= Len(stack) /\ k \in Nat /\ k >= 1
      BY <1>0, <2>1, FramesAre DEF Before
    <3>2. Len(stack'[k].dir) = Len(Top) + k - 1
      BY <2>2
    <3>3. k < l
      BY <3>1, <3>2
    <3>4. k \in 1..l - 1 /\ k \in 1..Len(stack) - 1 /\ k \in DOMAIN stack
      <4>1. Len(stack) \in Nat
        BY <1>0
      <4>2. k \in 1..l - 1 /\ k \in 1..Len(stack) - 1
        BY <3>1, <3>3, <4>1
      <4> QED BY <1>0, <2>2, <4>2
    <3>5. stack'[k] = stack[k] /\ At(stack[k], d)
      BY <2>1, <2>2, <3>4 DEF Chain
    <3> DEFINE f == stack[k]
    <3>6. /\ f.dir \in Dirs /\ f.next \in Nat /\ f.next > 1 /\ f.next <= Len(disk[f.dir]) + 1
          /\ DOMAIN disk[f.dir] = 1..Len(disk[f.dir]) /\ Len(disk[f.dir]) \in Nat
          /\ disk[f.dir][f.next - 1].name = d[Len(f.dir) + 1]
      BY <3>4, <3>5, FramesAre DEF At
    <3>7. PICK j \in f.next..Len(disk[f.dir]) : disk[f.dir][j].name = d[Len(f.dir) + 1]
      BY <3>5 DEF Before
    <3> HIDE DEF f
    <3>8. f.next - 1 \in DOMAIN disk[f.dir] /\ j \in DOMAIN disk[f.dir] /\ f.next - 1 # j
      BY <3>6, <3>7
    <3> QED BY <3>6, <3>7, <3>8, EntriesAre
  <2>4. ~ (pc' = "call" /\ InCall(called'))
    <3> SUFFICES ASSUME pc' = "call", IsPrefix(called', d) PROVE FALSE
      BY DEF InCall
    <3>1. called' = PathOf(Entry)
      BY <1>9, StepIs DEF CallSkips, CallOpens, VanishStep, TurnStops, TurnGoes, EndStep, SignalStep, vars,
                          Opens, Pops, Goes
    <3>2. PathOf(Entry) \in Paths /\ Len(d) < Len(PathOf(Entry))
      BY <1>9, EntryIs DEF Comes
    <3>3. Len(PathOf(Entry)) \in Nat /\ Len(PathOf(Entry)) <= Len(d)
      BY <1>0, <3>1, <3>2 DEF IsPrefix, Paths
    <3> QED BY <1>0, <3>2, <3>3
  <2> QED BY <1>1, <2>3, <2>4
<1> QED BY <1>8, <1>9


LEMMA ListedStays == ASSUME Shape, Shape', Chain, Listed, [Next]_vars
                     PROVE  Listed'
<1>1. /\ Dirs' = Dirs /\ disk' = disk /\ Accepted' = Accepted /\ KidsDomain' = KidsDomain
      /\ DOMAIN kids' = KidsDomain
  BY StepIs, InputStays, KidsStep
<1>2. \A k \in DOMAIN stack' : \A m \in DOMAIN kids'[stack'[k].dir] :
        \E i \in 1..stack'[k].next - 1 : disk'[stack'[k].dir][i].name = kids'[stack'[k].dir][m]
  BY <1>1, KnownStep
<1>3. ASSUME NEW d \in Dirs, Untouched(d)' PROVE kids'[d] = <<>>
  <2>1. Untouched(d) /\ ~ (pc = "walk" /\ More /\ (Goes \/ Pops) /\ Comes(d, PathOf(Entry)))
    BY <1>3, NeverBack
  <2>2. kids[d] = <<>> /\ d \in KidsDomain
    BY <2>1, DirsHaveEntries DEF Listed
  <2>3. CASE kids' = kids
    BY <2>2, <2>3
  <2>4. CASE kids' # kids
    <3>1. Goes \/ Pops
      BY <2>4, StepIs DEF CallSkips, CallOpens, VanishStep, TurnStops, TurnGoes, EndStep, SignalStep, vars
    <3>2. kids'[d] = kids[d]
      BY <2>1, <2>2, <3>1, ListStep
    <3> QED BY <2>2, <3>2
  <2> QED BY <2>3, <2>4
<1>4. \A p \in KidsDomain : \A m, n \in DOMAIN kids'[p] : kids'[p][m] = kids'[p][n] => m = n
  BY DistinctStep
<1>5. \A p \in KidsDomain : \A m \in DOMAIN kids'[p] : \E q \in Accepted : IsPrefix(Append(p, kids'[p][m]), q)
  BY WantedStep
<1> QED BY <1>1, <1>2, <1>3, <1>4, <1>5 DEF Listed

-----------------------------------------------------------------------------
(* Why directories were given up.                                          *)

LEMMA OnTheWayIs == ASSUME Shape, NEW d \in Dirs, NEW p \in OnTheWay(d)
                    PROVE  /\ p \in Paths /\ p \in Dirs /\ d \in Paths /\ Len(p) \in Nat /\ Len(d) \in Nat
                           /\ IsPrefix(p, d) /\ Len(p) < Len(d)
<1>1. p \in Prefixes(d) /\ p # d /\ IsPrefix(Top, p) /\ d \in Paths /\ Top \in Paths
  BY DirsAre DEF OnTheWay
<1>2. p \in Paths
  BY <1>1, PrefixSub DEF Prefixes, Paths
<1>3. IsPrefix(p, d)
  BY <1>1, <1>2, PrefixesAre DEF Paths
<1>4. Len(Top) <= Len(p) /\ Len(p) <= Len(d) /\ Len(p) \in Nat /\ Len(d) \in Nat
  BY <1>1, <1>2, <1>3 DEF IsPrefix, Paths
<1>5. Len(p) # Len(d)
  BY <1>1, <1>2, <1>3, PrefixSame DEF Paths
<1>6. p \in Dirs
  BY <1>2, <1>3, <1>4, OnTheWayAre
<1> QED BY <1>1, <1>2, <1>3, <1>4, <1>5, <1>6

Excused(s, sk, p, d) ==
  \/ p \in sk
  \/ Last(disk[p]).name = d[Len(p) + 1]
  \/ \E k \in DOMAIN s : s[k].dir = p /\ At(s[k], d)

LEMMA ExcusedStep ==
  ASSUME Shape, Shape', Chain, Reasons, [Next]_vars, vanished' = {}, NEW d \in skipped' \ closed,
         NEW p \in OnTheWay(d)
  PROVE  curSignal' > 0 /\ Excused(stack', skipped', p, d)
<1>0. /\ stack \in Seq(Frames) /\ DOMAIN stack = 1..Len(stack) /\ Len(stack) \in Nat
      /\ stack' \in Seq(Frames) /\ DOMAIN stack' = 1..Len(stack') /\ disk' = disk
      /\ curSignal \in Nat
  BY StackTyped, StepIs, InputStays, SearchAssumption DEF Shape
<1>1. vanished = {} /\ skipped \subseteq skipped'
  BY StepIs DEF CallSkips, CallOpens, VanishStep, TurnStops, TurnGoes, EndStep, SignalStep, vars
<1>2. d \in skipped => curSignal > 0 /\ Excused(stack, skipped, p, d)
  BY <1>1 DEF Reasons, Excused
<1>3. d \in Dirs
  BY SkippedStays
<1>4. /\ p \in Paths /\ p \in Dirs /\ d \in Paths /\ Len(p) \in Nat /\ Len(d) \in Nat
      /\ IsPrefix(p, d) /\ Len(p) < Len(d)
  BY <1>3, OnTheWayIs
<1>5. ASSUME Pops, Excused(stack, skipped, p, d)
      PROVE  Excused(stack', skipped', p, d) \/ (p = Frame.dir /\ At(Frame, d))
  <2>1. CASE p \in skipped \/ Last(disk[p]).name = d[Len(p) + 1]
    BY <1>1, <2>1 DEF Excused
  <2>2. CASE \E k \in DOMAIN stack : stack[k].dir = p /\ At(stack[k], d)
    <3>1. PICK k \in DOMAIN stack : stack[k].dir = p /\ At(stack[k], d)
      BY <2>2
    <3>2. /\ Len(stack') = Len(stack) - 1 /\ Len(stack) >= 1
          /\ \A a \in 1..Len(stack) - 1 : stack'[a] = stack[a]
      BY <1>5, PopsStack
    <3>3. CASE k = Len(stack)
      BY <3>1, <3>3 DEF Frame, Last
    <3>4. CASE k # Len(stack)
      <4>1. Len(stack) \in Nat /\ k \in 1..Len(stack)
        BY <1>0
      <4>2. k \in 1..Len(stack) - 1
        BY <3>4, <4>1
      <4>3. stack'[k] = stack[k] /\ k \in DOMAIN stack'
        BY <1>0, <3>2, <4>2
      <4> QED BY <3>1, <4>3 DEF Excused
    <3> QED BY <3>3, <3>4
  <2> QED BY <1>5, <2>1, <2>2 DEF Excused
<1>6. CASE CallSkips
  BY <1>1, <1>2, <1>6 DEF CallSkips, Excused, Shape
<1>7. CASE CallOpens
  <2>1. d \in skipped /\ curSignal' = curSignal
    BY <1>7 DEF CallOpens
  <2>2. /\ Len(stack') = Len(stack) + 1 /\ \A a \in 1..Len(stack) : stack'[a] = stack[a]
    BY <1>7, OpensStack DEF CallOpens
  <2>3. \A a \in DOMAIN stack : a \in DOMAIN stack' /\ stack'[a] = stack[a]
    BY <1>0, <2>2
  <2>4. Excused(stack', skipped', p, d)
    BY <1>1, <1>2, <2>1, <2>3 DEF Excused
  <2> QED BY <1>2, <2>1, <2>4
<1>8. CASE VanishStep
  BY <1>8 DEF VanishStep
<1>9. CASE TurnStops
  <2>1. Pops /\ curSignal > 0 /\ curSignal' = curSignal /\ skipped' = skipped \cup {Frame.dir} /\ pc = "walk"
    BY <1>9 DEF TurnStops, Pops
  <2>2. CASE d \in skipped
    BY <1>2, <1>5, <2>1, <2>2 DEF Excused
  <2>3. CASE d = Frame.dir
    <3>1. stack # <<>> /\ Frame = stack[Len(stack)] /\ Len(stack) >= 1
      BY <2>1, StackIs DEF Shape
    <3>2. PICK k \in DOMAIN stack : p = stack[k].dir
      BY <1>4, <2>3, <3>1, StackHas
    <3>3. k # Len(stack)
      BY <1>4, <2>3, <3>1, <3>2
    <3>4. k \in 1..Len(stack) - 1 /\ Len(stack) \in 1..Len(stack)
      <4>1. Len(stack) \in Nat /\ k \in 1..Len(stack)
        BY <1>0
      <4> QED BY <3>1, <3>3, <4>1
    <3>5. At(stack[k], d)
      BY <1>0, <2>3, <3>1, <3>4 DEF Chain
    <3>6. Len(stack') = Len(stack) - 1 /\ stack'[k] = stack[k]
      BY <2>1, <3>4, PopsStack
    <3>7. k \in DOMAIN stack'
      BY <1>0, <3>4, <3>6
    <3> QED BY <2>1, <3>2, <3>5, <3>6, <3>7 DEF Excused
  <2> QED BY <2>1, <2>2, <2>3
<1>10. CASE TurnGoes
  BY <1>2, <1>10 DEF TurnGoes
<1>11. CASE EndStep
  <2>1. Pops /\ ~More /\ skipped' = skipped /\ curSignal' = curSignal /\ pc = "walk"
    BY <1>11 DEF EndStep, Pops
  <2>2. ASSUME p = Frame.dir, At(Frame, d) PROVE Excused(stack', skipped', p, d)
    <3>1. /\ Frame.dir \in Dirs /\ Frame.next \in Nat /\ Frame.next \in 1..Len(disk[Frame.dir]) + 1
      BY <2>1, StackIs DEF Shape
    <3>2. Len(disk[Frame.dir]) \in Nat
      BY <3>1, DirsHaveEntries
    <3>3. Frame.next - 1 = Len(disk[Frame.dir])
      BY <2>1, <3>1, <3>2 DEF More
    <3>4. Last(disk[p]) = disk[Frame.dir][Frame.next - 1]
      BY <2>2, <3>3 DEF Last
    <3> QED BY <2>2, <3>4 DEF Excused, At
  <2> QED BY <1>2, <1>5, <2>1, <2>2
<1>12. CASE SignalStep
  <2>1. curSignal' > 0 /\ stack' = stack /\ skipped' = skipped
    BY <1>0, <1>12 DEF SignalStep
  <2> QED BY <1>2, <2>1
<1>13. CASE UNCHANGED vars
  BY <1>2, <1>13 DEF vars
<1> QED BY <1>6, <1>7, <1>8, <1>9, <1>10, <1>11, <1>12, <1>13, StepIs

LEMMA SignalledStep ==
  ASSUME Shape, Shape', Chain, Reasons, [Next]_vars, vanished' = {}, NEW d \in skipped' \ closed
  PROVE  curSignal' > 0
<1>0. curSignal \in Nat
  BY SearchAssumption DEF Shape
<1>1. vanished = {}
  BY StepIs DEF CallSkips, CallOpens, VanishStep, TurnStops, TurnGoes, EndStep, SignalStep, vars
<1>2. d \in skipped => curSignal > 0
  BY <1>1 DEF Reasons
<1> QED BY <1>0, <1>2, StepIs
        DEF CallSkips, CallOpens, VanishStep, TurnStops, TurnGoes, EndStep, SignalStep, vars


LEMMA ReasonsStep == ASSUME Shape, Shape', Chain, Reasons, [Next]_vars
                     PROVE  Reasons'
<1>0. /\ closed' = closed /\ disk' = disk /\ Top \in Dirs /\ Top \in Paths
      /\ closed \subseteq Dirs
  BY StepIs, InputStays, DirsAre DEF Shape
<1>1. /\ Top \in skipped => pc = "failed"
      /\ vanished # {} => errno # "ok"
      /\ errno = "EACCES" => closed \cap skipped # {}
      /\ pc = "printed" => errno \in {"ok", "EACCES"}
  BY DEF Reasons
<1>2. pc = "walk" => (Frame.dir = Top <=> Callers = <<>>)
  <2> SUFFICES ASSUME pc = "walk" PROVE Frame.dir = Top <=> Callers = <<>>
    OBVIOUS
  <2>1. /\ Len(stack) \in Nat /\ Len(Frame.dir) = Len(Top) + Len(stack) - 1
        /\ (Len(stack) = 1 => Frame.dir = Top) /\ (Callers = <<>> <=> Len(stack) = 1)
    BY StackIs DEF Shape
  <2>2. Len(Top) \in Nat
    BY <1>0 DEF Paths
  <2> QED BY <2>1, <2>2
<1>3. Top \in skipped' => pc' = "failed"
  <2>1. CASE CallSkips
    <3>1. called = Top => stack = <<>>
      <4>1. /\ Len(called) = Len(Top) + Len(stack) /\ Len(Top) \in Nat /\ stack \in Seq(Frames)
        BY <1>0, <2>1 DEF CallSkips, Shape, Paths
      <4> QED BY <4>1
    <3> QED BY <1>1, <2>1, <3>1 DEF CallSkips
  <2>2. CASE CallOpens
    BY <1>1, <2>2 DEF CallOpens, Opens
  <2>3. CASE VanishStep
    BY <1>1, <1>2, <2>3 DEF VanishStep, Pops
  <2>4. CASE TurnStops
    BY <1>1, <1>2, <2>4 DEF TurnStops, Pops
  <2>5. CASE TurnGoes
    BY <1>1, <2>5 DEF TurnGoes, Goes
  <2>6. CASE EndStep
    BY <1>1, <2>6 DEF EndStep, Pops
  <2>7. CASE SignalStep
    BY <1>1, <2>7 DEF SignalStep
  <2>8. CASE UNCHANGED vars
    BY <1>1, <2>8 DEF vars
  <2> QED BY <2>1, <2>2, <2>3, <2>4, <2>5, <2>6, <2>7, <2>8, StepIs
<1>4. vanished' # {} => errno' # "ok"
  BY <1>1, StepIs DEF CallSkips, CallOpens, VanishStep, TurnStops, TurnGoes, EndStep, SignalStep, vars
<1>5. errno' = "EACCES" => closed' \cap skipped' # {}
  <2>1. CASE CallSkips
    BY <1>0, <2>1 DEF CallSkips
  <2>2. CASE VanishStep
    BY <2>2 DEF VanishStep
  <2>3. CASE ~CallSkips /\ ~VanishStep
    <3>1. errno' = errno /\ skipped \subseteq skipped'
      BY <2>3, StepIs DEF CallOpens, TurnStops, TurnGoes, EndStep, SignalStep, vars
    <3> QED BY <1>0, <1>1, <3>1
  <2> QED BY <2>1, <2>2, <2>3
<1>6. pc' = "printed" => errno' \in {"ok", "EACCES"}
  <2>1. CASE EndStep
    <3> SUFFICES ASSUME pc' = "printed" PROVE errno \in {"ok", "EACCES"}
      BY <2>1 DEF EndStep
    <3>1. Callers = <<>> /\ pc = "walk" /\ (Frame.save = errno \/ errno = "EACCES")
      BY <2>1 DEF EndStep, Pops
    <3>2. Len(stack) = 1 /\ Frame = stack[1] /\ stack # <<>>
      BY <3>1, StackIs DEF Shape
    <3>3. Frame.save = "ok"
      BY <3>2 DEF Shape
    <3> QED BY <3>1, <3>3
  <2>2. CASE ~EndStep
    <3>1. pc' = "printed" => pc' = pc /\ errno' = errno
      BY <2>2, StepIs DEF CallSkips, CallOpens, Opens, VanishStep, TurnStops, TurnGoes, SignalStep, vars, Pops
    <3> QED BY <1>1, <3>1
  <2> QED BY <2>1, <2>2
<1>7. ASSUME vanished' = {}, NEW d \in skipped' \ closed, NEW p \in OnTheWay(d)
      PROVE  (\/ p \in skipped
              \/ Last(disk[p]).name = d[Len(p) + 1]
              \/ \E k \in DOMAIN stack : stack[k].dir = p /\ At(stack[k], d))'
  <2>1. Excused(stack', skipped', p, d)
    BY <1>7, ExcusedStep
  <2> QED BY <1>0, <2>1 DEF Excused, At
<1>8. \A d : OnTheWay(d)' = OnTheWay(d)
  BY DEF OnTheWay
<1> QED BY <1>0, <1>3, <1>4, <1>5, <1>6, <1>7, <1>8, SignalledStep DEF Reasons

-----------------------------------------------------------------------------
LEMMA Starts == Init => IInv
<1> SUFFICES ASSUME Init PROVE IInv
  OBVIOUS
<1>1. IsFileSystem(disk)
  BY SearchAssumption DEF Init
<1>2. Top \in Dirs /\ MaxSig \in Nat
  BY <1>1, SearchAssumption DEF IsFileSystem, Dirs
<1>3. /\ closed \subseteq Dirs /\ kids = [p \in KidsDomain |-> <<>>]
      /\ stack = <<>> /\ errno = "ok" /\ curSignal = 0 /\ pc = "call" /\ called = Top
      /\ vanished = {} /\ skipped = {} /\ disk \in Disks /\ opts \in Criteria
  BY DEF Init, Dirs, KidsDomain
<1>4. Top \in Paths /\ Len(Top) \in Nat
  BY <1>1, <1>2 DEF IsFileSystem, Dirs, Paths
<1>5. Shape
  <2>1. kids \in [KidsDomain -> Seq(Names)]
    BY <1>3
  <2>2. stack \in Seq(Frames) /\ DOMAIN stack = {} /\ Len(stack) = 0
    BY <1>3
  <2> QED BY <1>2, <1>3, <1>4, <2>1, <2>2 DEF Shape, Errnos
<1>6. Chain
  BY <1>3 DEF Chain
<1>7. Complete
  <2> SUFFICES ASSUME NEW p \in Accepted PROVE ToCome(p)
    BY DEF Complete
  <2>1. PICK d \in Dirs : \E i \in DOMAIN disk[d] : p = Append(d, disk[d][i].name)
    BY <1>5, AcceptedAre
  <2>2. PICK i \in DOMAIN disk[d] : p = Append(d, disk[d][i].name)
    BY <2>1
  <2>3. d \in Paths /\ disk[d][i].name \in Names /\ IsPrefix(Top, d) /\ Len(Top) <= Len(d)
    BY <1>5, DirsAre, EntriesAre
  <2>4. p \in Paths /\ Len(p) = Len(d) + 1 /\ IsPrefix(d, p) /\ Len(d) \in Nat
    BY <2>2, <2>3, PrefixAppend DEF Paths
  <2>5. IsPrefix(Top, p) /\ Len(Top) < Len(p)
    BY <1>4, <2>3, <2>4, PrefixTrans DEF Paths
  <2> QED BY <1>3, <2>5 DEF ToCome
<1>8. \A p \in KidsDomain : kids[p] = <<>> /\ DOMAIN kids[p] = {}
  BY <1>3
<1>9. Listed /\ InOrder
  <2>1. DOMAIN kids = KidsDomain /\ Dirs \subseteq KidsDomain
    BY <1>5, KidsDomainIs
  <2>2. DOMAIN stack = {}
    BY <1>3
  <2> QED BY <1>8, <2>1, <2>2 DEF Listed, InOrder
<1>10. Reasons
  BY <1>3 DEF Reasons
<1> QED BY <1>5, <1>6, <1>7, <1>9, <1>10 DEF IInv

LEMMA Steps == IInv /\ [Next]_vars => IInv'
<1> SUFFICES ASSUME IInv, [Next]_vars PROVE IInv'
  OBVIOUS
<1>1. Shape /\ Chain /\ Complete /\ Listed /\ InOrder /\ Reasons
  BY DEF IInv
<1>2. Shape'
  BY <1>1, ShapeStep
<1>3. Chain'
  BY <1>1, ChainStep
<1>4. Complete'
  BY <1>1, <1>2, CompleteStep
<1>5. Listed'
  BY <1>1, <1>2, ListedStays
<1>6. InOrder'
  BY <1>1, OrderStep
<1>7. Reasons'
  BY <1>1, <1>2, ReasonsStep
<1> QED BY <1>2, <1>3, <1>4, <1>5, <1>6, <1>7 DEF IInv

LEMMA Always == Spec => []IInv
  BY Starts, Steps, PTL DEF Spec

-----------------------------------------------------------------------------
(* The tree.                                                               *)

LEMMA SizeOf == ASSUME NEW T, NEW s \in Seq(T), \A m, n \in DOMAIN s : s[m] = s[n] => m = n
                PROVE  Len(s) = Cardinality(ToSet(s))
<1>1. Len(s) \in Nat /\ DOMAIN s = 1..Len(s)
  OBVIOUS
<1>2. s \in Bijection(1..Len(s), ToSet(s))
  BY <1>1 DEF Bijection, Injection, Surjection, ToSet, IsInjective
<1>3. ExistsBijection(1..Len(s), ToSet(s))
  BY <1>2 DEF ExistsBijection
<1> QED BY <1>1, <1>3, FS_CountingElements

LEMMA TreeHolds == IInv => TreeInv
<1> SUFFICES ASSUME IInv PROVE TreeInv
  OBVIOUS
<1>1. Shape /\ Listed /\ InOrder
  BY DEF IInv
<1>2. DOMAIN kids = KidsDomain /\ \A p \in KidsDomain : p \in Paths /\ kids[p] \in Seq(Names)
  BY <1>1, KidsDomainIs
<1>3. ASSUME NEW p \in DOMAIN kids, NEW i \in DOMAIN kids[p]
      PROVE  \E d \in Dirs : IsPrefix(Append(p, kids[p][i]), d) \/ d = p
  <2>1. PICK q \in Accepted : IsPrefix(Append(p, kids[p][i]), q)
    BY <1>1 DEF Listed
  <2>2. PICK d \in Dirs : \E j \in DOMAIN disk[d] : q = Append(d, disk[d][j].name)
    BY <1>1, <2>1, AcceptedAre
  <2>3. PICK j \in DOMAIN disk[d] : q = Append(d, disk[d][j].name)
    BY <2>2
  <2>4. d \in Paths /\ disk[d][j].name \in Names /\ p \in Paths /\ kids[p][i] \in Names
    BY <1>1, <1>2, DirsAre, EntriesAre
  <2> DEFINE r == Append(p, kids[p][i])
  <2>5. r \in Paths /\ Len(r) = Len(p) + 1 /\ IsPrefix(p, r) /\ Len(p) \in Nat /\ Len(d) \in Nat
    BY <2>4, PrefixAppend DEF Paths
  <2>6. IsPrefix(r, Append(d, disk[d][j].name))
    BY <2>1, <2>3
  <2> HIDE DEF r
  <2>7. /\ Len(r) <= Len(d) + 1 /\ (Len(r) <= Len(d) => IsPrefix(r, d))
        /\ (Len(r) = Len(d) + 1 => r = Append(d, disk[d][j].name))
    BY <2>4, <2>5, <2>6, PrefixOfAppend DEF Paths
  <2>8. CASE Len(r) <= Len(d)
    BY <2>7, <2>8 DEF r
  <2>9. CASE Len(r) = Len(d) + 1
    <3>1. IsPrefix(p, Append(d, disk[d][j].name))
      BY <2>5, <2>7, <2>9
    <3>2. Len(p) = Len(d)
      BY <2>5, <2>9
    <3>3. IsPrefix(p, d)
      BY <2>4, <2>5, <3>1, <3>2, PrefixOfAppend DEF Paths
    <3> QED BY <2>4, <3>2, <3>3, PrefixSame DEF Paths
  <2> QED BY <2>5, <2>7, <2>8, <2>9
<1>4. TypeOK
  <2>1. \A i \in DOMAIN stack : stack[i].dir \in Dirs /\ stack[i].next \in 1..Len(disk[stack[i].dir]) + 1
    BY <1>1, FramesAre DEF Shape
  <2> QED BY <1>1, <1>3, <2>1 DEF TypeOK, Shape, Errnos
<1>5. TreeIsRight
  <2>1. ASSUME NEW q \in Nodes PROVE \E p \in Accepted : IsPrefix(q, p)
    <3>1. PICK r \in DOMAIN kids : \E m \in DOMAIN kids[r] : q = Append(r, kids[r][m])
      BY NodesAre
    <3> QED BY <1>1, <3>1 DEF Listed
  <2>2. ASSUME NEW p \in DOMAIN kids PROVE Len(kids[p]) = Cardinality(ToSet(kids[p]))
    <3>1. \A m, n \in DOMAIN kids[p] : kids[p][m] = kids[p][n] => m = n
      BY <1>1 DEF Listed
    <3> QED BY <1>2, <3>1, SizeOf
  <2> QED BY <2>1, <2>2 DEF TreeIsRight
<1> QED BY <1>1, <1>4, <1>5 DEF TreeInv

(* The tree that add builds (HWs/HW1/main.c L360-411) is right throughout  *)
(* the walk: every name in it leads to a file that is wanted, none stands  *)
(* twice, and siblings are in the order in which readdir gave them -       *)
(* whatever the file system, the options, the signals and the entries that *)
(* vanish.                                                                 *)
THEOREM TreeAlwaysRight == Spec => []TreeInv
  BY Always, TreeHolds, PTL

(* A tree that is printed has every file that is wanted, but for           *)
(* directories that were given up; one of these can be there only after    *)
(* the end of what was walked above it, or with a directory the user may   *)
(* not open (L182-195).                                                    *)
THEOREM PrintedTreeTrue == Spec => []PrintedIsTrue
<1>1. IInv => PrintedIsTrue
  <2> SUFFICES ASSUME IInv, pc = "printed" PROVE PrintedIsTrue
    BY DEF PrintedIsTrue, PrintedIsComplete, PrintedInSpite
  <2>1. Shape /\ Complete /\ Reasons /\ stack = <<>>
    BY DEF IInv, Shape
  <2>2. PrintedIsComplete
    <3>1. DOMAIN stack = {}
      BY <2>1
    <3>2. \A p : ~ToCome(p)
      BY <3>1 DEF ToCome
    <3> QED BY <2>1, <3>2 DEF Complete, PrintedIsComplete
  <2>3. ASSUME vanished = {}, NEW d \in skipped \ closed
        PROVE  /\ curSignal > 0 /\ d # Top
               /\ OnTheWay(d) \cap skipped = {} => \A p \in OnTheWay(d) : Last(disk[p]).name = d[Len(p) + 1]
    <3>1. DOMAIN stack = {}
      BY <2>1
    <3> QED BY <2>1, <2>3, <3>1 DEF Reasons
  <2>4. vanished # {} => closed \cap skipped # {}
    BY <2>1 DEF Reasons
  <2> QED BY <2>2, <2>3, <2>4 DEF PrintedIsTrue, PrintedInSpite
<1> QED BY <1>1, Always, PTL

-----------------------------------------------------------------------------
(* The pattern.  A set of numbers has a least, and contains them all if it *)
(* has 0 and the next of each.                                             *)

Smaller == {p \in Nat \X Nat : p[1] < p[2]}

LEMMA Least == ASSUME NEW T \in SUBSET Nat, T # {}
               PROVE  \E x \in T : \A y \in T : x <= y
<1>1. IsWellFoundedOn(OpToRel(<, Nat), Nat)
  BY NatLessThanWellFounded, Zenon
<1>2. OpToRel(<, Nat) = Smaller
  BY DEF OpToRel, Smaller
<1>3. PICK x \in T : \A y \in T : ~ (<<y, x>> \in Smaller)
  BY <1>1, <1>2, WFMin, T \subseteq Nat, Zenon
<1>4. ASSUME NEW y \in T PROVE x <= y
  <2>1. x \in Nat /\ y \in Nat
    OBVIOUS
  <2>2. <<y, x>> \in Nat \X Nat /\ ~ (<<y, x>> \in Smaller)
    BY <1>3, <2>1
  <2> QED BY <2>1, <2>2 DEF Smaller
<1> QED BY <1>4

(* T is the set of the numbers for which a formula holds.                  *)
LEMMA AllNat == ASSUME NEW T \in SUBSET Nat, 0 \in T, \A k \in T : k + 1 \in T
                PROVE  T = Nat
<1> SUFFICES ASSUME Nat \ T # {} PROVE FALSE
  OBVIOUS
<1>1. (Nat \ T) \in SUBSET Nat
  OBVIOUS
<1>2. PICK x \in Nat \ T : \A y \in Nat \ T : x <= y
  BY <1>1, Least, Zenon
<1>3. x # 0 /\ x - 1 \in Nat
  BY <1>2
<1>4. x - 1 \in T
  BY <1>2, <1>3
<1> QED BY <1>2, <1>3, <1>4

-----------------------------------------------------------------------------
(* What the pattern means from its j-th character on, for the name from    *)
(* its i-th on.                                                            *)
Text == Seq(STRING)
From(r, j) == {l \in Letters(r) : l >= j}
Stands(f, r, i, j, m) ==
  /\ m \in [i..Len(f) -> From(r, j)]
  /\ \A p \in i..Len(f) : is_char_equal(f[p], r[m[p]])
  /\ \A l \in From(r, j) : \E p \in i..Len(f) : m[p] = l
  /\ \A p, q \in i..Len(f) : p < q => m[p] < m[q] \/ (m[p] = m[q] /\ Repeated(r, m[p]))
Rest(f, r, i, j) == \E m : Stands(f, r, i, j, m)

LEMMA AcceptsIs == ASSUME NEW f \in Text, NEW r \in Text
                   PROVE  Accepts(f, r) <=> Rest(f, r, 1, 1)
<1>1. DOMAIN f = 1..Len(f) /\ From(r, 1) = Letters(r)
  BY DEF Text, From, Letters
<1> QED BY <1>1 DEF Accepts, Rest, Stands

LEMMA CharsEqual ==
  /\ \A c : is_char_equal(c, c)
  /\ \A c, d : is_char_equal(c, d) <=> is_char_equal(d, c)
  /\ \A c, d, e : is_char_equal(c, d) /\ is_char_equal(d, e) => is_char_equal(c, e)
  /\ \A c : is_char_equal(c, "+") <=> c = "+"
  BY DEF is_char_equal, Lower

(* Between a letter a and b there is nothing but +.                        *)
Next1(r, a, b) == a < b /\ \A l \in a + 1..b - 1 : l \in DOMAIN r => r[l] = "+"

(* The name's characters from y to z - 1 may stand for the letter a.       *)
Takes(f, r, y, z, a) == /\ \A p \in y..z - 1 : is_char_equal(f[p], r[a])
                        /\ z > y + 1 => Repeated(r, a)

LEMMA FromIs == ASSUME NEW r \in Text, NEW a \in Letters(r), NEW b \in Int, Next1(r, a, b)
                PROVE  From(r, a) = From(r, b) \cup {a} /\ a \notin From(r, b)
  BY DEF From, Letters, Next1, Text

(* The name's characters from y to z - 1 may stand for the letter a.       *)
LEMMA Prepend ==
  ASSUME NEW f \in Text, NEW r \in Text, NEW y \in Nat, NEW z \in Nat, y < z, NEW a \in Letters(r), NEW b \in Int,
         y >= 1, z <= Len(f) + 1,
         \A p \in y..z - 1 : is_char_equal(f[p], r[a]),
         z > y + 1 => Repeated(r, a),
         Next1(r, a, b) \/ (b = a /\ Repeated(r, a)),
         Rest(f, r, z, b)
  PROVE  Rest(f, r, y, a)
<1>1. PICK m : Stands(f, r, z, b, m)
  BY DEF Rest
<1>0. a \in Int /\ Len(f) \in Nat /\ Letters(r) \subseteq Int
  BY DEF Letters, Text
<1>2. From(r, b) \subseteq From(r, a) /\ a \in From(r, a) /\ \A l \in From(r, b) : l \in Int /\ l >= a
  BY <1>0, FromIs DEF From
<1> DEFINE n == [p \in y..Len(f) |-> IF p < z THEN a ELSE m[p]]
<1>3. \A p \in y..Len(f) : ~(p < z) => p \in z..Len(f)
  BY <1>0
<1>4. n \in [y..Len(f) -> From(r, a)]
  BY <1>1, <1>2, <1>3 DEF Stands
<1>5. ASSUME NEW p \in y..Len(f) PROVE is_char_equal(f[p], r[n[p]])
  <2>1. CASE p < z
    BY <1>0, <2>1
  <2>2. CASE ~(p < z)
    BY <1>1, <1>3, <2>2 DEF Stands
  <2> QED BY <2>1, <2>2
<1>6. ASSUME NEW l \in From(r, a) PROVE \E p \in y..Len(f) : n[p] = l
  <2>1. CASE l = a
    <3>1. y \in y..Len(f) /\ n[y] = a
      BY <1>0
    <3> QED BY <2>1, <3>1
  <2>2. CASE l # a
    <3>1. l \in From(r, b)
      BY <2>2, FromIs
    <3>2. PICK p \in z..Len(f) : m[p] = l
      BY <1>1, <3>1 DEF Stands
    <3>3. p \in y..Len(f) /\ ~(p < z)
      BY <1>0
    <3> QED BY <3>2, <3>3
  <2> QED BY <2>1, <2>2
<1>7. ASSUME NEW p \in y..Len(f), NEW q \in y..Len(f), p < q
      PROVE  n[p] < n[q] \/ (n[p] = n[q] /\ Repeated(r, n[p]))
  <2>1. CASE q < z
    <3>1. n[p] = a /\ n[q] = a /\ z > y + 1
      BY <1>0, <1>7, <2>1
    <3> QED BY <3>1
  <2>2. CASE ~(q < z) /\ p < z
    <3>1. n[p] = a /\ n[q] = m[q] /\ m[q] \in From(r, b)
      BY <1>1, <1>3, <2>2 DEF Stands
    <3>2. CASE Next1(r, a, b)
      <4>1. m[q] # a /\ m[q] \in Int /\ m[q] >= a
        BY <1>2, <3>1, <3>2, FromIs
      <4>2. a < m[q]
        BY <1>0, <4>1
      <4> QED BY <3>1, <4>2
    <3>3. CASE b = a /\ Repeated(r, a)
      <4>1. m[q] \in Int /\ m[q] >= a
        BY <1>2, <3>1
      <4>2. a < m[q] \/ a = m[q]
        BY <1>0, <4>1
      <4> QED BY <3>1, <3>3, <4>2
    <3> QED BY <3>2, <3>3
  <2>3. CASE ~(q < z) /\ ~(p < z)
    <3>1. p \in z..Len(f) /\ q \in z..Len(f) /\ n[p] = m[p] /\ n[q] = m[q]
      BY <1>3, <2>3
    <3> QED BY <1>1, <1>7, <3>1 DEF Stands
  <2>4. p < z \/ ~(p < z)
    OBVIOUS
  <2> QED BY <2>1, <2>2, <2>3, <2>4
<1> HIDE DEF n
<1> QED BY <1>4, <1>5, <1>6, <1>7 DEF Rest, Stands

(* A letter a stands for some of them, and the rest is left to what        *)
(* follows.                                                                *)
LEMMA Split ==
  ASSUME NEW f \in Text, NEW r \in Text, NEW y \in Nat, y >= 1, NEW a \in Letters(r), NEW b \in Int,
         Next1(r, a, b), Rest(f, r, y, a)
  PROVE  \E z \in y + 1..Len(f) + 1 : Takes(f, r, y, z, a) /\ Rest(f, r, z, b)
<1>1. PICK m : Stands(f, r, y, a, m)
  BY DEF Rest
<1>0. a \in Int /\ Len(f) \in Nat /\ Letters(r) \subseteq Int
  BY DEF Letters, Text
<1>2. From(r, a) = From(r, b) \cup {a} /\ a \notin From(r, b) /\ \A l \in From(r, a) : l \in Int /\ l >= a
  BY <1>0, FromIs DEF From
<1>3. /\ \A p \in y..Len(f) : m[p] \in From(r, a) /\ is_char_equal(f[p], r[m[p]])
      /\ \A l \in From(r, a) : \E p \in y..Len(f) : m[p] = l
      /\ \A p, q \in y..Len(f) : p < q => m[p] < m[q] \/ (m[p] = m[q] /\ Repeated(r, m[p]))
  BY <1>1 DEF Stands
<1>4. ASSUME NEW p \in y..Len(f), NEW q \in y..Len(f), p < q PROVE m[p] <= m[q]
  <2>1. m[p] \in Int /\ m[q] \in Int
    BY <1>2, <1>3
  <2>2. m[p] < m[q] \/ m[p] = m[q]
    BY <1>3, <1>4
  <2> QED BY <2>1, <2>2
<1>5. PICK p0 \in y..Len(f) : m[p0] = a
  BY <1>2, <1>3
<1>6. m[y] = a /\ y <= Len(f)
  <2>1. y \in y..Len(f)
    BY <1>0, <1>5
  <2>2. p0 = y \/ y < p0
    BY <1>5
  <2>3. m[y] <= a /\ m[y] >= a /\ m[y] \in Int
    BY <1>0, <1>2, <1>3, <1>4, <1>5, <2>1, <2>2
  <2> QED BY <1>0, <2>1, <2>3
<1> DEFINE T == {p \in y..Len(f) + 1 : p = Len(f) + 1 \/ m[p] # a}
<1>7. T \in SUBSET Nat /\ T # {}
  <2>1. Len(f) + 1 \in T
    BY <1>0, <1>6
  <2> QED BY <1>0, <2>1
<1>8. PICK z \in T : \A x \in T : z <= x
  BY <1>7, Least, Zenon
<1>9. z \in y + 1..Len(f) + 1
  <2>1. z # y
    BY <1>0, <1>6, <1>8
  <2> QED BY <1>0, <1>8, <2>1
<1>10. \A p \in y..z - 1 : p \in y..Len(f) /\ m[p] = a
  <2> SUFFICES ASSUME NEW p \in y..z - 1 PROVE p \in y..Len(f) /\ m[p] = a
    OBVIOUS
  <2>1. p \in y..Len(f)
    BY <1>0, <1>9
  <2>2. p \notin T
    BY <1>8, <1>9
  <2> QED BY <1>0, <2>1, <2>2
<1>11. \A p \in y..z - 1 : is_char_equal(f[p], r[a])
  BY <1>3, <1>10
<1>12. ASSUME z > y + 1 PROVE Repeated(r, a)
  <2>1. y \in y..z - 1 /\ y + 1 \in y..z - 1
    BY <1>9, <1>12
  <2>2. m[y] = a /\ m[y + 1] = a /\ y \in y..Len(f) /\ y + 1 \in y..Len(f)
    BY <1>10, <2>1
  <2>3. y < y + 1
    OBVIOUS
  <2>4. ~(a < a)
    BY <1>0
  <2> QED BY <1>3, <2>2, <2>3, <2>4
<1>13. \A p \in z..Len(f) : p \in y..Len(f) /\ m[p] \in From(r, b)
  <2> SUFFICES ASSUME NEW p \in z..Len(f) PROVE p \in y..Len(f) /\ m[p] \in From(r, b)
    OBVIOUS
  <2>1. p \in y..Len(f) /\ z \in y..Len(f) /\ z # Len(f) + 1
    BY <1>0, <1>9
  <2>2. m[z] # a
    BY <1>8, <2>1
  <2>3. m[z] \in Int /\ m[z] >= a /\ m[p] \in From(r, a) /\ m[p] \in Int
    BY <1>2, <1>3, <2>1
  <2>4. p = z \/ z < p
    BY <1>9
  <2>5. m[p] # a
    BY <1>0, <1>4, <2>1, <2>2, <2>3, <2>4
  <2> QED BY <1>2, <2>1, <2>3, <2>5
<1> DEFINE n == [p \in z..Len(f) |-> m[p]]
<1>14. ASSUME NEW l \in From(r, b) PROVE \E p \in z..Len(f) : n[p] = l
  <2>1. PICK p \in y..Len(f) : m[p] = l
    BY <1>2, <1>3
  <2>2. p \notin y..z - 1
    BY <1>2, <1>10, <2>1
  <2>3. p \in z..Len(f)
    BY <1>9, <2>2
  <2> QED BY <2>1, <2>3
<1>15. Stands(f, r, z, b, n)
  <2>1. n \in [z..Len(f) -> From(r, b)]
    BY <1>13
  <2>2. \A p \in z..Len(f) : n[p] = m[p] /\ p \in y..Len(f)
    BY <1>13
  <2> HIDE DEF n
  <2> QED BY <1>3, <1>14, <2>1, <2>2 DEF Stands
<1> HIDE DEF n, T
<1> QED BY <1>9, <1>11, <1>12, <1>15 DEF Rest, Takes

LEMMA OneLetter ==
  ASSUME NEW f \in Text, NEW r \in Text, NEW y \in Nat, y >= 1, y <= Len(f) + 1,
         NEW a \in Letters(r), ~Repeated(r, a)
  PROVE  Rest(f, r, y, a) <=> y <= Len(f) /\ is_char_equal(f[y], r[a]) /\ Rest(f, r, y + 1, a + 1)
<1>0. a \in Int /\ a + 1 \in Int /\ Len(f) \in Nat /\ y + 1 \in Nat
  BY DEF Letters, Text
<1>1. Next1(r, a, a + 1)
  BY <1>0 DEF Next1
<1> DEFINE b == a + 1
<1>b. b \in Int /\ Next1(r, a, b)
  BY <1>0, <1>1
<1>2. ASSUME Rest(f, r, y, a) PROVE y <= Len(f) /\ is_char_equal(f[y], r[a]) /\ Rest(f, r, y + 1, b)
  <2> HIDE DEF b
  <2>1. PICK z \in y + 1..Len(f) + 1 : Takes(f, r, y, z, a) /\ Rest(f, r, z, b)
    BY <1>b, <1>2, Split
  <2>2. z = y + 1 /\ y <= Len(f) /\ y \in y..z - 1
    BY <1>0, <2>1 DEF Takes
  <2> QED BY <2>1, <2>2 DEF Takes
<1>3. ASSUME y <= Len(f), is_char_equal(f[y], r[a]), Rest(f, r, y + 1, a + 1) PROVE Rest(f, r, y, a)
  <2>1. /\ y < y + 1 /\ y + 1 <= Len(f) + 1 /\ \A p \in y..(y + 1) - 1 : is_char_equal(f[p], r[a])
        /\ ~(y + 1 > y + 1)
    BY <1>0, <1>3
  <2> QED BY <1>0, <1>1, <1>3, <2>1, Prepend
<1> QED BY <1>2, <1>3

(* k letters that are all c.                                               *)
LEMMA Block ==
  ASSUME NEW f \in Text, NEW r \in Text, NEW y \in Nat, y >= 1, y <= Len(f) + 1,
         NEW a \in Nat, a >= 1, NEW K \in Nat, a + K <= Len(r) + 1, NEW c,
         \A l \in a..a + K - 1 : is_char_equal(r[l], c) /\ r[l] # "+",
         a + K <= Len(r) => r[a + K] # "+"
  PROVE  Rest(f, r, y, a) <=>
           y + K <= Len(f) + 1 /\ (\A p \in y..y + K - 1 : is_char_equal(f[p], c)) /\ Rest(f, r, y + K, a + K)
<1> DEFINE S(k) == Rest(f, r, y, a) <=>
                     /\ y + k <= Len(f) + 1 /\ \A p \in y..y + k - 1 : is_char_equal(f[p], c)
                     /\ Rest(f, r, y + k, a + k)
           T == {k \in Nat : k <= K => S(k)}
<1>0. Len(f) \in Nat /\ Len(r) \in Nat
  BY DEF Text
<1>1. 0 \in T
  <2>1. y + 0 = y /\ a + 0 = a /\ \A p \in y..y + 0 - 1 : is_char_equal(f[p], c)
    OBVIOUS
  <2>2. S(0)
    BY <2>1
  <2> HIDE DEF S
  <2> QED BY <2>2
<1>2. ASSUME NEW k \in T PROVE k + 1 \in T
  <2> SUFFICES ASSUME k + 1 <= K PROVE S(k + 1)
    OBVIOUS
  <2>1. k \in Nat /\ k < K /\ S(k)
    OBVIOUS
  <2>2. a + k \in Letters(r) /\ is_char_equal(r[a + k], c) /\ a + k \in Nat
    <3>1. a + k \in a..a + K - 1 /\ a + k \in 1..Len(r)
      BY <1>0, <2>1
    <3> QED BY <3>1 DEF Letters, Text
  <2>3. ~Repeated(r, a + k)
    <3>1. a + k + 1 <= Len(r) => r[a + k + 1] # "+"
      <4>1. CASE k + 1 = K
        <5>1. a + k + 1 = a + K
          BY <2>1, <4>1
        <5> QED BY <5>1
      <4>2. CASE k + 1 # K
        <5>1. a + k + 1 \in a..a + K - 1
          BY <2>1, <4>2
        <5> QED BY <5>1
      <4> QED BY <4>1, <4>2
    <3> QED BY <1>0, <2>1, <3>1 DEF Repeated
  <2> DEFINE v == y + k
  <2>4. v \in Nat /\ v >= 1 /\ y + (k + 1) = v + 1 /\ a + (k + 1) = a + k + 1
    BY <2>1
  <2>5. (\A p \in y..y + (k + 1) - 1 : is_char_equal(f[p], c)) <=>
          (\A p \in y..y + k - 1 : is_char_equal(f[p], c)) /\ is_char_equal(f[v], c)
    <3>1. \A p : p \in y..y + (k + 1) - 1 <=> p \in y..y + k - 1 \/ p = v
      BY <2>1
    <3> QED BY <3>1
  <2>6. v <= Len(f) + 1 => (Rest(f, r, v, a + k) <=>
          v <= Len(f) /\ is_char_equal(f[v], r[a + k]) /\ Rest(f, r, v + 1, a + k + 1))
    BY <2>2, <2>3, <2>4, OneLetter
  <2>7. is_char_equal(f[v], r[a + k]) <=> is_char_equal(f[v], c)
    BY <2>2, CharsEqual
  <2>8. v <= Len(f) + 1 /\ v <= Len(f) <=> v + 1 <= Len(f) + 1
    BY <1>0, <2>4
  <2>9. v + 1 <= Len(f) + 1 => v <= Len(f) + 1
    BY <1>0, <2>4
  <2> QED BY <2>1, <2>4, <2>5, <2>6, <2>7, <2>8, <2>9
<1>3. T = Nat
  <2>1. T \in SUBSET Nat
    OBVIOUS
  <2> HIDE DEF T
  <2> QED BY <1>1, <1>2, <2>1, AllNat
<1>4. K \in T
  <2> HIDE DEF T
  <2> QED BY <1>3
<1> QED BY <1>4

LEMMA RepeatsIs ==
  ASSUME NEW r \in Text, NEW j \in 1..Len(r) + 1, NEW c
  PROVE  /\ Repeats(c, r, j) \in 0..Len(r) + 1 - j
         /\ \A l \in j..j + Repeats(c, r, j) - 1 : is_char_equal(r[l], c)
         /\ j + Repeats(c, r, j) > Len(r) \/ ~is_char_equal(r[j + Repeats(c, r, j)], c)
<1>0. Len(r) \in Nat
  BY DEF Text
<1> DEFINE P(k) == /\ \A l \in j..j + k - 1 : is_char_equal(r[l], c)
                   /\ j + k > Len(r) \/ ~is_char_equal(r[j + k], c)
           T == {k \in 0..Len(r) + 1 - j : j + k > Len(r) \/ ~is_char_equal(r[j + k], c)}
<1>1. T \in SUBSET Nat /\ T # {}
  <2>1. Len(r) + 1 - j \in 0..Len(r) + 1 - j /\ j + (Len(r) + 1 - j) > Len(r)
    BY <1>0
  <2>2. Len(r) + 1 - j \in T
    BY <2>1
  <2>3. 0..Len(r) + 1 - j \subseteq Nat
    OBVIOUS
  <2> QED BY <2>2, <2>3
<1>2. PICK k \in T : \A x \in T : k <= x
  BY <1>1, Least, Zenon
<1>3. ASSUME NEW l \in j..j + k - 1 PROVE is_char_equal(r[l], c)
  <2>1. l - j \in 0..Len(r) + 1 - j /\ l - j < k /\ j + (l - j) = l /\ k \in Int /\ l - j \in Int
    BY <1>0, <1>2
  <2>2. l - j \notin T
    <3> HIDE DEF T
    <3>1. ~(k <= l - j)
      BY <2>1
    <3> QED BY <1>2, <3>1
  <2> QED BY <2>1, <2>2
<1>4. \E x \in 0..Len(r) + 1 - j : P(x)
  BY <1>2, <1>3
<1>5. Repeats(c, r, j) = CHOOSE x \in 0..Len(r) + 1 - j : P(x)
  BY DEF Repeats
<1> HIDE DEF P
<1>6. Repeats(c, r, j) \in 0..Len(r) + 1 - j /\ P(Repeats(c, r, j))
  BY <1>4, <1>5
<1> QED BY <1>6 DEF P

-----------------------------------------------------------------------------
(* The loop of is_valid_regex: what one turn does, and that turns end.     *)
States(f, r) == (1..Len(f) + 1) \X (1..Len(r) + 1) \X Int
Turn1(f, r, g, i, j, n) ==
  IF j > Len(r) THEN i > Len(f)
  ELSE IF i <= Len(f) /\ is_char_equal(f[i], r[j]) THEN g[<<i + 1, j + 1, 0>>]
  ELSE IF r[j] # "+" THEN FALSE
  ELSE IF i <= Len(f) /\ is_char_equal(f[i], f[i - 1]) THEN g[<<i + 1, j, n + 1>>]
  ELSE IF n >= Repeats(f[i - 1], r, j + 1)
       THEN g[<<i, j + 1 + Repeats(f[i - 1], r, j + 1), n - Repeats(f[i - 1], r, j + 1)>>]
       ELSE FALSE
Turns(f, r) == CHOOSE g : g = [s \in States(f, r) |-> Turn1(f, r, g, s[1], s[2], s[3])]

LEMMA RegexIs == ASSUME NEW f, NEW r
                 PROVE  is_valid_regex(f, r) = Turns(f, r)[<<1, 1, 0>>]
  BY DEF is_valid_regex, Turns, States, Turn1, Enough

Rank(f, r, s) == (Len(f) + 1 - s[1]) + (Len(r) + 1 - s[2])

LEMMA TurnLowers ==
  ASSUME NEW f \in Text, NEW r \in Text, NEW i \in 1..Len(f) + 1, NEW j \in 1..Len(r), NEW n \in Int
  PROVE  /\ i <= Len(f) => /\ <<i + 1, j + 1, 0>> \in States(f, r) /\ <<i + 1, j, n + 1>> \in States(f, r)
                           /\ Rank(f, r, <<i + 1, j + 1, 0>>) < Rank(f, r, <<i, j, n>>)
                           /\ Rank(f, r, <<i + 1, j, n + 1>>) < Rank(f, r, <<i, j, n>>)
         /\ \A k \in 0..Len(r) - j : /\ <<i, j + 1 + k, n - k>> \in States(f, r)
                                     /\ Rank(f, r, <<i, j + 1 + k, n - k>>) < Rank(f, r, <<i, j, n>>)
<1>0. Len(f) \in Nat /\ Len(r) \in Nat
  BY DEF Text
<1>1. ASSUME NEW a \in 1..Len(f) + 1, NEW b \in 1..Len(r) + 1, NEW m \in Int
      PROVE  <<a, b, m>> \in States(f, r) /\ Rank(f, r, <<a, b, m>>) = (Len(f) + 1 - a) + (Len(r) + 1 - b)
  BY DEF States, Rank
<1>2. Rank(f, r, <<i, j, n>>) = (Len(f) + 1 - i) + (Len(r) + 1 - j)
  BY <1>0, <1>1
<1>3. ASSUME i <= Len(f)
      PROVE  /\ <<i + 1, j + 1, 0>> \in States(f, r) /\ <<i + 1, j, n + 1>> \in States(f, r)
             /\ Rank(f, r, <<i + 1, j + 1, 0>>) < Rank(f, r, <<i, j, n>>)
             /\ Rank(f, r, <<i + 1, j, n + 1>>) < Rank(f, r, <<i, j, n>>)
  <2>1. i + 1 \in 1..Len(f) + 1 /\ j + 1 \in 1..Len(r) + 1 /\ j \in 1..Len(r) + 1 /\ n + 1 \in Int /\ 0 \in Int
    BY <1>0, <1>3
  <2>2. /\ Rank(f, r, <<i + 1, j + 1, 0>>) = (Len(f) + 1 - (i + 1)) + (Len(r) + 1 - (j + 1))
        /\ Rank(f, r, <<i + 1, j, n + 1>>) = (Len(f) + 1 - (i + 1)) + (Len(r) + 1 - j)
        /\ <<i + 1, j + 1, 0>> \in States(f, r) /\ <<i + 1, j, n + 1>> \in States(f, r)
    BY <1>1, <2>1
  <2> QED BY <1>0, <1>2, <2>2
<1>4. ASSUME NEW k \in 0..Len(r) - j
      PROVE  /\ <<i, j + 1 + k, n - k>> \in States(f, r)
             /\ Rank(f, r, <<i, j + 1 + k, n - k>>) < Rank(f, r, <<i, j, n>>)
  <2>1. j + 1 + k \in 1..Len(r) + 1 /\ n - k \in Int
    BY <1>0
  <2>2. /\ Rank(f, r, <<i, j + 1 + k, n - k>>) = (Len(f) + 1 - i) + (Len(r) + 1 - (j + 1 + k))
        /\ <<i, j + 1 + k, n - k>> \in States(f, r)
    BY <1>1, <2>1
  <2> QED BY <1>0, <1>2, <2>2
<1> QED BY <1>3, <1>4

LEMMA TurnSame ==
  ASSUME NEW f \in Text, NEW r \in Text, NEW g, NEW h, NEW i \in 1..Len(f) + 1, NEW j \in 1..Len(r) + 1, NEW n \in Int,
         \A s \in States(f, r) : Rank(f, r, s) < Rank(f, r, <<i, j, n>>) => g[s] = h[s]
  PROVE  Turn1(f, r, g, i, j, n) = Turn1(f, r, h, i, j, n)
<1>0. Len(r) \in Nat
  BY DEF Text
<1>1. CASE j > Len(r)
  BY <1>1 DEF Turn1
<1>2. CASE ~(j > Len(r))
  <2>1. j \in 1..Len(r) /\ j + 1 \in 1..Len(r) + 1
    BY <1>0, <1>2
  <2> DEFINE k == Repeats(f[i - 1], r, j + 1)
  <2>2. k \in 0..Len(r) - j
    <3>1. k \in 0..Len(r) + 1 - (j + 1)
      BY <2>1, RepeatsIs
    <3> QED BY <1>0, <2>1, <3>1
  <2> HIDE DEF k
  <2>3. g[<<i, j + 1 + k, n - k>>] = h[<<i, j + 1 + k, n - k>>]
    BY <2>1, <2>2, TurnLowers
  <2>4. i <= Len(f) => /\ g[<<i + 1, j + 1, 0>>] = h[<<i + 1, j + 1, 0>>]
                       /\ g[<<i + 1, j, n + 1>>] = h[<<i + 1, j, n + 1>>]
    BY <2>1, TurnLowers
  <2> QED BY <1>2, <2>3, <2>4 DEF Turn1, k
<1> QED BY <1>1, <1>2
LEMMA StateIs ==
  ASSUME NEW f \in Text, NEW r \in Text, NEW s \in States(f, r)
  PROVE  /\ s = <<s[1], s[2], s[3]>> /\ s[1] \in 1..Len(f) + 1 /\ s[2] \in 1..Len(r) + 1 /\ s[3] \in Int
         /\ Rank(f, r, s) \in 0..Len(f) + Len(r)
<1>1. s = <<s[1], s[2], s[3]>> /\ s[1] \in 1..Len(f) + 1 /\ s[2] \in 1..Len(r) + 1 /\ s[3] \in Int
  BY DEF States
<1>2. Len(f) \in Nat /\ Len(r) \in Nat
  BY DEF Text
<1> QED BY <1>1, <1>2 DEF Rank

LEMMA TurnsExist ==
  ASSUME NEW f \in Text, NEW r \in Text
  PROVE  \E g : g = [s \in States(f, r) |-> Turn1(f, r, g, s[1], s[2], s[3])]
<1> DEFINE Sm(n) == {s \in States(f, r) : Rank(f, r, s) < n}
           Is(g, n) == g = [s \in Sm(n) |-> Turn1(f, r, g, s[1], s[2], s[3])]
           T == {n \in Nat : \E g : Is(g, n)}
<1>1. 0 \in T
  <2>1. Sm(0) = {}
    BY StateIs
  <2> DEFINE g == [s \in {} |-> 0]
  <2>2. g = [s \in {} |-> Turn1(f, r, g, s[1], s[2], s[3])]
    OBVIOUS
  <2>3. Is(g, 0)
    BY <2>1, <2>2
  <2> QED BY <2>3
<1>2. ASSUME NEW n \in T PROVE n + 1 \in T
  <2>1. PICK g : Is(g, n)
    OBVIOUS
  <2>2. n \in Nat
    OBVIOUS
  <2> DEFINE h == [s \in Sm(n + 1) |-> Turn1(f, r, g, s[1], s[2], s[3])]
  <2>3. \A s \in Sm(n) : s \in Sm(n + 1) /\ h[s] = g[s]
    <3> SUFFICES ASSUME NEW s \in Sm(n) PROVE s \in Sm(n + 1) /\ h[s] = g[s]
      OBVIOUS
    <3>1. Rank(f, r, s) \in Int /\ s \in States(f, r) /\ Rank(f, r, s) < n
      BY StateIs
    <3>2. s \in Sm(n + 1)
      BY <2>2, <3>1
    <3>3. g[s] = Turn1(f, r, g, s[1], s[2], s[3])
      BY <2>1
    <3> QED BY <3>2, <3>3
  <2>4. ASSUME NEW s \in Sm(n + 1) PROVE Turn1(f, r, h, s[1], s[2], s[3]) = Turn1(f, r, g, s[1], s[2], s[3])
    <3>1. s \in States(f, r) /\ Rank(f, r, s) < n + 1 /\ Rank(f, r, s) \in Int
      BY StateIs
    <3>2. \A t \in States(f, r) : Rank(f, r, t) < Rank(f, r, s) => h[t] = g[t]
      <4> SUFFICES ASSUME NEW t \in States(f, r), Rank(f, r, t) < Rank(f, r, s) PROVE h[t] = g[t]
        OBVIOUS
      <4>1. Rank(f, r, t) \in Int
        BY StateIs
      <4>2. t \in Sm(n)
        BY <2>2, <3>1, <4>1
      <4> HIDE DEF h, Sm
      <4> QED BY <2>3, <4>2
    <3>3. s = <<s[1], s[2], s[3]>> /\ s[1] \in 1..Len(f) + 1 /\ s[2] \in 1..Len(r) + 1 /\ s[3] \in Int
      BY <3>1, StateIs
    <3> HIDE DEF h, Sm
    <3>4. \A t \in States(f, r) : Rank(f, r, t) < Rank(f, r, <<s[1], s[2], s[3]>>) => h[t] = g[t]
      BY <3>2, <3>3
    <3> QED BY <3>3, <3>4, TurnSame
  <2>5. h = [s \in Sm(n + 1) |-> Turn1(f, r, h, s[1], s[2], s[3])]
    <3> DEFINE h2 == [s \in Sm(n + 1) |-> Turn1(f, r, h, s[1], s[2], s[3])]
    <3> HIDE DEF Sm
    <3> QED BY <2>4
  <2>6. Is(h, n + 1)
    BY <2>5
  <2>7. \E x : Is(x, n + 1)
    <3> HIDE DEF Is, h
    <3> QED BY <2>6
  <2> HIDE DEF Is
  <2> QED BY <2>2, <2>7
<1>3. T = Nat
  <2>1. T \in SUBSET Nat
    OBVIOUS
  <2> HIDE DEF T
  <2> QED BY <1>1, <1>2, <2>1, AllNat
<1> DEFINE L == Len(f) + Len(r) + 1
<1>4. L \in Nat
  BY DEF Text
<1>5. PICK g : Is(g, L)
  <2>1. L \in T
    <3> HIDE DEF T, L
    <3> QED BY <1>3, <1>4
  <2> HIDE DEF Is, L
  <2> QED BY <2>1
<1>6. Sm(L) = States(f, r)
  <2>1. \A s \in States(f, r) : Rank(f, r, s) < L
    <3> SUFFICES ASSUME NEW s \in States(f, r) PROVE Rank(f, r, s) < L
      OBVIOUS
    <3>1. Rank(f, r, s) \in 0..Len(f) + Len(r) /\ Len(f) \in Nat /\ Len(r) \in Nat
      BY StateIs DEF Text
    <3> QED BY <3>1
  <2> QED BY <2>1
<1> QED BY <1>5, <1>6

LEMMA TurnsAre ==
  ASSUME NEW f \in Text, NEW r \in Text, NEW i \in 1..Len(f) + 1, NEW j \in 1..Len(r) + 1, NEW n \in Int
  PROVE  Turns(f, r)[<<i, j, n>>] = Turn1(f, r, Turns(f, r), i, j, n)
<1>1. Turns(f, r) = [s \in States(f, r) |-> Turn1(f, r, Turns(f, r), s[1], s[2], s[3])]
  BY TurnsExist DEF Turns
<1>2. <<i, j, n>> \in States(f, r)
  BY DEF States
<1> HIDE DEF Turns
<1> QED BY <1>1, <1>2
LEMMA FirstStands ==
  ASSUME NEW f \in Text, NEW r \in Text, NEW y \in Nat, NEW a \in Letters(r), Rest(f, r, y, a)
  PROVE  y <= Len(f) /\ is_char_equal(f[y], r[a])
<1>1. PICK m : Stands(f, r, y, a, m)
  BY DEF Rest
<1>0. a \in Int /\ Len(f) \in Nat /\ Letters(r) \subseteq Int
  BY DEF Letters, Text
<1>2. \A l \in From(r, a) : l \in Int /\ l >= a
  BY <1>0 DEF From
<1>3. /\ \A p \in y..Len(f) : m[p] \in From(r, a) /\ is_char_equal(f[p], r[m[p]])
      /\ \A l \in From(r, a) : \E p \in y..Len(f) : m[p] = l
      /\ \A p, q \in y..Len(f) : p < q => m[p] < m[q] \/ (m[p] = m[q] /\ Repeated(r, m[p]))
  BY <1>1 DEF Stands
<1>4. a \in From(r, a)
  BY <1>0 DEF From
<1>5. PICK p \in y..Len(f) : m[p] = a
  BY <1>3, <1>4
<1>6. y \in y..Len(f) /\ (p = y \/ y < p)
  BY <1>0
<1>7. m[y] \in Int /\ m[y] >= a /\ m[y] <= a
  BY <1>0, <1>2, <1>3, <1>5, <1>6
<1>8. m[y] = a
  BY <1>0, <1>7
<1> QED BY <1>3, <1>6, <1>8

LEMMA RestEnd ==
  ASSUME NEW f \in Text, NEW r \in Text, NEW y \in Nat, NEW j \in Int, From(r, j) = {}
  PROVE  Rest(f, r, y, j) <=> y > Len(f)
<1>0. Len(f) \in Nat
  BY DEF Text
<1>1. ASSUME Rest(f, r, y, j) PROVE y > Len(f)
  <2>1. PICK m : Stands(f, r, y, j, m)
    BY <1>1 DEF Rest
  <2>2. \A p \in y..Len(f) : m[p] \in From(r, j)
    BY <2>1 DEF Stands
  <2>3. ~(y \in y..Len(f))
    BY <2>2
  <2> QED BY <1>0, <2>3
<1>2. ASSUME y > Len(f) PROVE Rest(f, r, y, j)
  <2>1. y..Len(f) = {}
    BY <1>0, <1>2
  <2> DEFINE m == [p \in {} |-> 0]
  <2>2. m \in [{} -> {}]
    OBVIOUS
  <2>3. Stands(f, r, y, j, m)
    BY <2>1, <2>2 DEF Stands
  <2> QED BY <2>3 DEF Rest
<1> QED BY <1>1, <1>2

(* A repeated letter a has been taken for the characters of the name from  *)
(* x to before i, all there are; + stands to j; k more of it follow there. *)
Pumped(f, r, x, i, a, j, k) ==
  /\ x \in Nat /\ x >= 1 /\ i \in Nat /\ x < i /\ i <= Len(f) + 1
  /\ a \in Letters(r) /\ j \in Nat /\ a < j /\ k \in Nat /\ j + 1 + k <= Len(r) + 1
  /\ \A l \in a + 1..j : r[l] = "+"
  /\ \A p \in x..i - 1 : is_char_equal(f[p], r[a])
  /\ i <= Len(f) => ~is_char_equal(f[i], r[a])
  /\ \A l \in j + 1..j + k : is_char_equal(r[l], r[a])

LEMMA PumpedFacts ==
  ASSUME NEW f \in Text, NEW r \in Text, NEW x, NEW i, NEW a, NEW j, NEW k, Pumped(f, r, x, i, a, j, k)
  PROVE  /\ a \in Nat /\ a >= 1 /\ Repeated(r, a) /\ Next1(r, a, j + 1) /\ r[a] # "+"
         /\ \A l \in j + 1..j + k : l \in Letters(r) /\ is_char_equal(r[l], r[a]) /\ r[l] # "+"
         /\ \A z \in x + 1..i : Takes(f, r, x, z, a)
         /\ Len(f) \in Nat /\ Len(r) \in Nat
<1>0. Len(f) \in Nat /\ Len(r) \in Nat
  BY DEF Text
<1>1. a \in Nat /\ a >= 1 /\ r[a] # "+" /\ a \in 1..Len(r)
  BY <1>0 DEF Pumped, Letters, Text
<1>2. Repeated(r, a) /\ Next1(r, a, j + 1)
  BY <1>0, <1>1 DEF Pumped, Repeated, Next1
<1>3. ASSUME NEW l \in j + 1..j + k PROVE l \in Letters(r) /\ is_char_equal(r[l], r[a]) /\ r[l] # "+"
  <2>1. is_char_equal(r[l], r[a]) /\ l \in 1..Len(r)
    BY <1>0, <1>1 DEF Pumped
  <2>2. r[l] # "+"
    BY <1>1, <2>1, CharsEqual
  <2> QED BY <2>1, <2>2 DEF Letters, Text
<1>4. ASSUME NEW z \in x + 1..i PROVE Takes(f, r, x, z, a)
  <2>1. x \in Nat /\ i \in Nat /\ \A p \in x..i - 1 : is_char_equal(f[p], r[a])
    BY DEF Pumped
  <2>2. \A p \in x..z - 1 : p \in x..i - 1
    BY <2>1
  <2> QED BY <1>2, <2>1, <2>2 DEF Takes
<1> QED BY <1>0, <1>1, <1>2, <1>3, <1>4

(* What the letter takes ends where the run of equal characters does or    *)
(* before it.                                                              *)
LEMMA PumpedSplit ==
  ASSUME NEW f \in Text, NEW r \in Text, NEW x, NEW i, NEW a, NEW j, NEW k, Pumped(f, r, x, i, a, j, k),
         Rest(f, r, x, a)
  PROVE  \E z \in x + 1..i : Rest(f, r, z, j + 1)
<1>0. a \in Letters(r) /\ x \in Nat /\ x >= 1 /\ i \in Nat /\ x < i /\ i <= Len(f) + 1 /\ j \in Nat /\ Len(f) \in Nat
  BY DEF Pumped, Text
<1> DEFINE b == j + 1
<1>1. b \in Int /\ Next1(r, a, b)
  BY <1>0, PumpedFacts
<1>2. PICK z \in x + 1..Len(f) + 1 : Takes(f, r, x, z, a) /\ Rest(f, r, z, b)
  <2> HIDE DEF b
  <2> QED BY <1>0, <1>1, Split
<1>3. z <= i
  <2> SUFFICES ASSUME ~(z <= i) PROVE FALSE
    OBVIOUS
  <2>1. i \in x..z - 1 /\ i <= Len(f)
    BY <1>0
  <2> QED BY <1>2, <2>1 DEF Takes, Pumped
<1> QED BY <1>0, <1>2, <1>3
(* After k more of it the pattern ends, or a letter comes that differs.    *)
LEMMA PumpedThenLetter ==
  ASSUME NEW f \in Text, NEW r \in Text, NEW x, NEW i, NEW a, NEW j, NEW k, Pumped(f, r, x, i, a, j, k),
         j + 1 + k <= Len(r) => r[j + 1 + k] # "+" /\ ~is_char_equal(r[j + 1 + k], r[a])
  PROVE  Rest(f, r, x, a) <=> i - x - 1 >= k /\ Rest(f, r, i, j + 1 + k)
<1>0. /\ x \in Nat /\ x >= 1 /\ i \in Nat /\ x < i /\ i <= Len(f) + 1 /\ a \in Letters(r) /\ j \in Nat /\ k \in Nat
      /\ j + 1 + k <= Len(r) + 1 /\ Len(f) \in Nat /\ Len(r) \in Nat /\ Next1(r, a, j + 1) /\ Repeated(r, a)
      /\ j + 1 \in Nat /\ j + 1 >= 1 /\ j + 1 \in Int
      /\ \A p \in x..i - 1 : is_char_equal(f[p], r[a])
      /\ i <= Len(f) => ~is_char_equal(f[i], r[a])
      /\ \A l \in (j + 1)..(j + 1) + k - 1 : is_char_equal(r[l], r[a]) /\ r[l] # "+"
  <2>1. Pumped(f, r, x, i, a, j, k)
    OBVIOUS
  <2>2. x \in Nat /\ i \in Nat /\ j \in Nat /\ k \in Nat
    BY DEF Pumped
  <2>3. (j + 1) + k - 1 = j + k
    BY <2>2
  <2>4. \A l \in j + 1..j + k : is_char_equal(r[l], r[a]) /\ r[l] # "+"
    BY PumpedFacts
  <2>5. Len(f) \in Nat /\ Len(r) \in Nat /\ Next1(r, a, j + 1) /\ Repeated(r, a)
    BY PumpedFacts
  <2> QED BY <2>2, <2>3, <2>4, <2>5 DEF Pumped
<1>1. ASSUME NEW z \in x + 1..i
      PROVE  Rest(f, r, z, j + 1) <=>
               /\ z + k <= Len(f) + 1 /\ \A p \in z..z + k - 1 : is_char_equal(f[p], r[a])
               /\ Rest(f, r, z + k, j + 1 + k)
  <2>1. z \in Nat /\ z >= 1 /\ z <= Len(f) + 1
    BY <1>0
  <2> DEFINE b == j + 1
  <2>2. b \in Nat /\ b >= 1 /\ b + k <= Len(r) + 1 /\ \A l \in b..b + k - 1 : is_char_equal(r[l], r[a]) /\ r[l] # "+"
    BY <1>0
  <2>3. b + k <= Len(r) => r[b + k] # "+"
    OBVIOUS
  <2>4. k \in Nat
    BY <1>0
  <2>5. Rest(f, r, z, b) <=> z + k <= Len(f) + 1 /\ (\A p \in z..z + k - 1 : is_char_equal(f[p], r[a])) /\ Rest(f, r, z + k, b + k)
    <3> HIDE DEF b
    <3> QED BY <2>1, <2>2, <2>3, <2>4, Block
  <2> QED BY <2>5
<1>2. ASSUME Rest(f, r, x, a) PROVE i - x - 1 >= k /\ Rest(f, r, i, j + 1 + k)
  <2>1. PICK z \in x + 1..i : Rest(f, r, z, j + 1)
    BY <1>2, PumpedSplit
  <2>2. /\ z + k <= Len(f) + 1 /\ \A p \in z..z + k - 1 : is_char_equal(f[p], r[a])
        /\ Rest(f, r, z + k, j + 1 + k)
    BY <1>1, <2>1
  <2>3. z + k <= i
    <3> SUFFICES ASSUME ~(z + k <= i) PROVE FALSE
      OBVIOUS
    <3>1. i \in z..z + k - 1 /\ i <= Len(f)
      BY <1>0, <2>2
    <3> QED BY <1>0, <2>2, <3>1
  <2>4. ~(z + k < i)
    <3> SUFFICES ASSUME z + k < i PROVE FALSE
      OBVIOUS
    <3>1. z + k \in x..i - 1 /\ z + k <= Len(f) /\ z + k \in Nat
      BY <1>0
    <3>2. is_char_equal(f[z + k], r[a])
      BY <1>0, <3>1
    <3> DEFINE b == j + 1 + k
               y == z + k
    <3>a. y \in Nat /\ y <= Len(f) /\ is_char_equal(f[y], r[a]) /\ Rest(f, r, y, b)
      BY <2>2, <3>1, <3>2
    <3>b. b \in Nat /\ b >= 1 /\ b <= Len(r) + 1
      BY <1>0
    <3>c. b <= Len(r) => r[b] # "+" /\ ~is_char_equal(r[b], r[a])
      OBVIOUS
    <3> HIDE DEF b, y
    <3>3. CASE b <= Len(r)
      <4>1. b \in Letters(r)
        BY <1>0, <3>3, <3>b, <3>c DEF Letters, Text
      <4>2. is_char_equal(f[y], r[b])
        BY <3>a, <4>1, FirstStands
      <4> QED BY <3>3, <3>a, <3>c, <4>2, CharsEqual
    <3>4. CASE ~(b <= Len(r))
      <4>1. From(r, b) = {} /\ b \in Int
        BY <1>0, <3>b, <3>4 DEF From, Letters, Text
      <4> QED BY <3>a, <4>1, RestEnd, <1>0
    <3> QED BY <3>3, <3>4
  <2>5. z + k = i
    BY <1>0, <2>3, <2>4
  <2>6. i - x - 1 >= k
    BY <1>0, <2>5
  <2> QED BY <2>2, <2>5, <2>6
<1>3. ASSUME i - x - 1 >= k, Rest(f, r, i, j + 1 + k) PROVE Rest(f, r, x, a)
  <2> DEFINE z == i - k
  <2>1. z \in x + 1..i /\ z + k = i /\ z \in Nat /\ x < z /\ z <= Len(f) + 1
    BY <1>0, <1>3
  <2>2. \A p \in z..z + k - 1 : p \in x..i - 1
    BY <1>0, <2>1
  <2>3. Rest(f, r, z, j + 1)
    <3> HIDE DEF z
    <3> QED BY <1>0, <1>1, <1>3, <2>1, <2>2
  <2>4. Takes(f, r, x, z, a)
    BY <2>1, PumpedFacts
  <2> DEFINE b == j + 1
  <2>5. b \in Int /\ Next1(r, a, b) /\ Rest(f, r, z, b)
    BY <1>0, <2>3
  <2> HIDE DEF z, b
  <2> QED BY <1>0, <2>1, <2>4, <2>5, Prepend DEF Takes
<1> QED BY <1>2, <1>3

(* After k more of it, at least one, a + comes, which belongs to the last. *)
LEMMA PumpedThenPlus ==
  ASSUME NEW f \in Text, NEW r \in Text, NEW x, NEW i, NEW a, NEW j, NEW k, Pumped(f, r, x, i, a, j, k),
         k >= 1, j + 1 + k <= Len(r), r[j + 1 + k] = "+"
  PROVE  Rest(f, r, x, a) <=> i - x - 1 >= k /\ Rest(f, r, x + k, j + k)
<1>0. /\ x \in Nat /\ x >= 1 /\ i \in Nat /\ x < i /\ i <= Len(f) + 1 /\ a \in Letters(r) /\ j \in Nat /\ k \in Nat
      /\ j + 1 + k <= Len(r) + 1 /\ Len(f) \in Nat /\ Len(r) \in Nat /\ Next1(r, a, j + 1) /\ Repeated(r, a)
      /\ \A p \in x..i - 1 : is_char_equal(f[p], r[a])
      /\ i <= Len(f) => ~is_char_equal(f[i], r[a])
      /\ \A l \in j + 1..j + k : is_char_equal(r[l], r[a]) /\ r[l] # "+" /\ l \in Letters(r)
  <2>1. Pumped(f, r, x, i, a, j, k)
    OBVIOUS
  <2>4. \A l \in j + 1..j + k : is_char_equal(r[l], r[a]) /\ r[l] # "+" /\ l \in Letters(r)
    BY PumpedFacts
  <2>5. Len(f) \in Nat /\ Len(r) \in Nat /\ Next1(r, a, j + 1) /\ Repeated(r, a)
    BY PumpedFacts
  <2> QED BY <2>4, <2>5 DEF Pumped
<1> DEFINE K == k - 1
           b == j + 1
           c == j + k
<1>a. /\ K \in Nat /\ b \in Nat /\ b >= 1 /\ b \in Int /\ c \in Nat /\ b + K = c /\ c \in j + 1..j + k /\ c \in Int
      /\ K + 1 = k /\ c + 1 = j + 1 + k
  BY <1>0
<1>b. c \in Letters(r) /\ Repeated(r, c) /\ is_char_equal(r[c], r[a]) /\ r[c] # "+" /\ Next1(r, a, b)
  <2>1. Repeated(r, c)
    BY <1>0, <1>a DEF Repeated
  <2> HIDE DEF c
  <2> QED BY <1>0, <1>a, <2>1
<1>1. ASSUME NEW z \in x + 1..i
      PROVE  Rest(f, r, z, b) <=>
               /\ z + K <= Len(f) + 1 /\ \A p \in z..z + K - 1 : is_char_equal(f[p], r[a])
               /\ Rest(f, r, z + K, c)
  <2>1. z \in Nat /\ z >= 1 /\ z <= Len(f) + 1
    BY <1>0
  <2>2. b + K <= Len(r) + 1 /\ \A l \in b..b + K - 1 : is_char_equal(r[l], r[a]) /\ r[l] # "+"
    <3>1. \A l \in b..b + K - 1 : l \in j + 1..j + k
      BY <1>0
    <3> HIDE DEF b, K
    <3>2. b + K <= Len(r) + 1
      BY <1>0, <1>a
    <3> QED BY <1>0, <3>1, <3>2
  <2>3. r[b + K] # "+"
    <3> HIDE DEF b, K, c
    <3> QED BY <1>a, <1>b
  <2> HIDE DEF b, K, c
  <2>4. Rest(f, r, z, b) <=> z + K <= Len(f) + 1 /\ (\A p \in z..z + K - 1 : is_char_equal(f[p], r[a])) /\ Rest(f, r, z + K, b + K)
    BY <1>a, <2>1, <2>2, <2>3, Block
  <2> QED BY <1>a, <2>4
<1>2. ASSUME Rest(f, r, x, a) PROVE i - x - 1 >= k /\ Rest(f, r, x + k, j + k)
  <2>1. PICK z \in x + 1..i : Rest(f, r, z, b)
    BY <1>2, PumpedSplit
  <2> DEFINE y == z + K
  <2>2. y <= Len(f) + 1 /\ (\A p \in z..y - 1 : is_char_equal(f[p], r[a])) /\ Rest(f, r, y, c) /\ y \in Nat
    <3>1. y \in Nat /\ y = z + K
      BY <1>0
    <3>2. /\ z + K <= Len(f) + 1 /\ \A p \in z..z + K - 1 : is_char_equal(f[p], r[a])
          /\ Rest(f, r, z + K, c)
      <4> HIDE DEF b, K, c, y
      <4> QED BY <1>1, <2>1
    <3> HIDE DEF b, K, c
    <3>3. y <= Len(f) + 1
      BY <3>1, <3>2
    <3>4. ASSUME NEW p \in z..y - 1 PROVE is_char_equal(f[p], r[a])
      <4>1. p \in z..z + K - 1
        BY <1>0, <1>a
      <4> HIDE DEF y
      <4> QED BY <3>2, <4>1
    <3>5. Rest(f, r, y, c)
      BY <3>1, <3>2
    <3> QED BY <3>1, <3>3, <3>4, <3>5
  <2>3. y <= Len(f) /\ is_char_equal(f[y], r[a])
    <3> HIDE DEF c, y
    <3>1. y <= Len(f) /\ is_char_equal(f[y], r[c])
      BY <1>b, <2>2, FirstStands
    <3> QED BY <1>b, <3>1, CharsEqual
  <2>4. y < i
    <3> SUFFICES ASSUME ~(y < i) PROVE FALSE
      OBVIOUS
    <3>1. i = y \/ i \in z..y - 1
      BY <1>0, <2>2
    <3>2. i <= Len(f)
      BY <1>0, <2>2, <2>3
    <3> HIDE DEF y
    <3> QED BY <1>0, <2>2, <2>3, <3>1, <3>2
  <2>5. i - x - 1 >= k /\ x + k <= y /\ x + k \in Nat
    BY <1>0, <2>4
  <2>6. Rest(f, r, x + k, c)
    <3>1. CASE x + k = y
      BY <2>2, <3>1
    <3>2. CASE x + k # y
      <4> DEFINE u == x + k
      <4>1. u \in Nat /\ u >= 1 /\ u < y /\ y \in Nat /\ y <= Len(f) + 1
        BY <1>0, <2>2, <2>5, <3>2
      <4>2. ASSUME NEW p \in u..y - 1 PROVE is_char_equal(f[p], r[c])
        <5>1. p \in x..i - 1
          BY <1>0, <2>4
        <5>2. is_char_equal(f[p], r[a])
          BY <1>0, <5>1
        <5> QED BY <1>b, <5>2, CharsEqual
      <4> HIDE DEF u, y, c
      <4>3. Rest(f, r, u, c)
        BY <1>a, <1>b, <2>2, <4>1, <4>2, Prepend
      <4> QED BY <4>3 DEF u
    <3> QED BY <3>1, <3>2
  <2> QED BY <2>5, <2>6
<1>3. ASSUME i - x - 1 >= k, Rest(f, r, x + k, j + k) PROVE Rest(f, r, x, a)
  <2> DEFINE z == x + 1
  <2>1. z \in x + 1..i /\ z + K = x + k /\ z \in Nat /\ x < z /\ z <= Len(f) + 1
    BY <1>0, <1>3
  <2>2. \A p \in z..z + K - 1 : p \in x..i - 1
    BY <1>0, <1>3
  <2>3. z + K <= Len(f) + 1
    BY <1>0, <1>3, <2>1
  <2>4. Rest(f, r, z, b)
    <3>1. Rest(f, r, x + k, c)
      BY <1>3
    <3> HIDE DEF z, K, b, c
    <3> QED BY <1>0, <1>1, <2>1, <2>2, <2>3, <3>1
  <2>5. Takes(f, r, x, z, a)
    BY <2>1, PumpedFacts
  <2> HIDE DEF z, b
  <2> QED BY <1>0, <1>a, <1>b, <2>1, <2>4, <2>5, Prepend DEF Takes
<1> QED BY <1>2, <1>3
-----------------------------------------------------------------------------
(* Where the loop stands: before a letter, or at a + after the letter a,   *)
(* which the characters before i stand for, n of them taken by the +.      *)
AtLetter(r, j) == j = Len(r) + 1 \/ r[j] # "+"
AtPlus(f, r, i, j, n, a) ==
  /\ a \in Letters(r) /\ a < j /\ j <= Len(r) /\ \A l \in a + 1..j : r[l] = "+"
  /\ n \in Nat /\ i - n - 1 >= 1 /\ \A p \in i - n - 1..i - 1 : is_char_equal(f[p], r[a])
Right(f, r, i, j, n) ==
  /\ AtLetter(r, j) => (Turns(f, r)[<<i, j, n>>] <=> Rest(f, r, i, j))
  /\ \A a : AtPlus(f, r, i, j, n, a) => (Turns(f, r)[<<i, j, n>>] <=> Rest(f, r, i - n - 1, a))
RightBelow(f, r, i, j, n) ==
  \A x \in 1..Len(f) + 1, y \in 1..Len(r) + 1, m \in Int :
    Rank(f, r, <<x, y, m>>) < Rank(f, r, <<i, j, n>>) => Right(f, r, x, y, m)
NoPlus(f) == \A p \in 1..Len(f) : f[p] # "+"

LEMMA LetterStep ==
  ASSUME NEW f \in Text, NEW r \in Text, NoPlus(f),
         NEW i \in 1..Len(f) + 1, NEW j \in 1..Len(r) + 1, NEW n \in Int,
         RightBelow(f, r, i, j, n), AtLetter(r, j)
  PROVE  Turns(f, r)[<<i, j, n>>] <=> Rest(f, r, i, j)
<1>0. Len(f) \in Nat /\ Len(r) \in Nat
  BY DEF Text
<1>1. Turns(f, r)[<<i, j, n>>] = Turn1(f, r, Turns(f, r), i, j, n)
  BY TurnsAre
<1>2. CASE j > Len(r)
  <2>1. From(r, j) = {} /\ j \in Int /\ i \in Nat
    BY <1>0, <1>2 DEF From, Letters, Text
  <2>2. Rest(f, r, i, j) <=> i > Len(f)
    BY <2>1, RestEnd
  <2> QED BY <1>1, <1>2, <2>2 DEF Turn1
<1>3. CASE ~(j > Len(r))
  <2>1. j \in 1..Len(r) /\ j \in Letters(r) /\ r[j] # "+" /\ i \in Nat /\ i >= 1 /\ i <= Len(f) + 1
    BY <1>0, <1>3 DEF AtLetter, Letters, Text
  <2>2. CASE i <= Len(f) /\ is_char_equal(f[i], r[j])
    <3> DEFINE x == i + 1
               y == j + 1
    <3>1. Turns(f, r)[<<i, j, n>>] = Turns(f, r)[<<x, y, 0>>]
      BY <1>1, <1>3, <2>2 DEF Turn1
    <3>2. x \in 1..Len(f) + 1 /\ y \in 1..Len(r) + 1 /\ 0 \in Int
      BY <1>0, <2>1, <2>2
    <3>3. Rank(f, r, <<x, y, 0>>) < Rank(f, r, <<i, j, n>>)
      BY <2>1, <2>2, TurnLowers
    <3>4. Right(f, r, x, y, 0)
      <4> HIDE DEF x, y
      <4> QED BY <3>2, <3>3 DEF RightBelow
    <3>5. CASE Repeated(r, j)
      <4>1. AtPlus(f, r, x, y, 0, j)
        <5>1. j < y /\ y <= Len(r) /\ \A l \in j + 1..y : r[l] = "+"
          BY <2>1, <3>5 DEF Repeated
        <5>2. x - 0 - 1 = i /\ \A p \in x - 0 - 1..x - 1 : p = i
          BY <2>1
        <5> QED BY <2>1, <2>2, <5>1, <5>2 DEF AtPlus
      <4>2. Turns(f, r)[<<x, y, 0>>] <=> Rest(f, r, x - 0 - 1, j)
        <5> HIDE DEF x, y
        <5> QED BY <3>4, <4>1 DEF Right
      <4>3. x - 0 - 1 = i
        BY <2>1
      <4> HIDE DEF x, y
      <4> QED BY <3>1, <4>2, <4>3
    <3>6. CASE ~Repeated(r, j)
      <4>1. AtLetter(r, y)
        BY <1>0, <2>1, <3>6 DEF AtLetter, Repeated
      <4>2. Turns(f, r)[<<x, y, 0>>] <=> Rest(f, r, x, y)
        BY <3>4, <4>1 DEF Right
      <4>3. Rest(f, r, i, j) <=> i <= Len(f) /\ is_char_equal(f[i], r[j]) /\ Rest(f, r, x, y)
        BY <2>1, <3>6, OneLetter
      <4> HIDE DEF x, y
      <4> QED BY <2>2, <3>1, <4>2, <4>3
    <3> QED BY <3>5, <3>6
  <2>3. CASE ~(i <= Len(f) /\ is_char_equal(f[i], r[j]))
    <3>1. Turns(f, r)[<<i, j, n>>] = FALSE
      BY <1>1, <1>3, <2>1, <2>3 DEF Turn1
    <3>2. ~Rest(f, r, i, j)
      BY <2>1, <2>3, FirstStands
    <3> QED BY <3>1, <3>2
  <2> QED BY <2>2, <2>3
<1> QED BY <1>2, <1>3

LEMMA PlusStep ==
  ASSUME NEW f \in Text, NEW r \in Text, NoPlus(f),
         NEW i \in 1..Len(f) + 1, NEW j \in 1..Len(r) + 1, NEW n \in Int,
         RightBelow(f, r, i, j, n), NEW a, AtPlus(f, r, i, j, n, a)
  PROVE  Turns(f, r)[<<i, j, n>>] <=> Rest(f, r, i - n - 1, a)
<1> DEFINE x == i - n - 1
<1>0. /\ Len(f) \in Nat /\ Len(r) \in Nat /\ j \in 1..Len(r) /\ n \in Nat /\ x \in Nat /\ x >= 1 /\ x < i /\ i \in Nat
      /\ i <= Len(f) + 1 /\ j \in Nat
  BY DEF Text, AtPlus
<1>1. /\ a \in Letters(r) /\ a \in Nat /\ a < j /\ r[a] # "+" /\ r[j] = "+"
      /\ \A l \in a + 1..j : r[l] = "+"
      /\ \A p \in x..i - 1 : is_char_equal(f[p], r[a])
  <2>1. a \in Letters(r) /\ a < j /\ j <= Len(r) /\ \A l \in a + 1..j : r[l] = "+"
    BY DEF AtPlus
  <2>2. a \in 1..Len(r) /\ r[a] # "+"
    BY <1>0, <2>1 DEF Letters, Text
  <2>3. j \in a + 1..j
    BY <1>0, <2>1, <2>2
  <2> QED BY <2>1, <2>2, <2>3 DEF AtPlus
<1>2. is_char_equal(f[i - 1], r[a])
  <2>1. i - 1 \in x..i - 1
    BY <1>0
  <2> HIDE DEF x
  <2> QED BY <1>1, <2>1
<1>3. Turns(f, r)[<<i, j, n>>] = Turn1(f, r, Turns(f, r), i, j, n)
  BY TurnsAre
<1>4. ~(j > Len(r)) /\ ~(i <= Len(f) /\ is_char_equal(f[i], r[j]))
  <2>1. i <= Len(f) => f[i] # "+"
    BY <1>0 DEF NoPlus
  <2> QED BY <1>0, <1>1, <2>1, CharsEqual
<1>5. CASE i <= Len(f) /\ is_char_equal(f[i], f[i - 1])
  <2> DEFINE y == i + 1
             m == n + 1
  <2>1. Turns(f, r)[<<i, j, n>>] = Turns(f, r)[<<y, j, m>>]
    BY <1>1, <1>3, <1>4, <1>5 DEF Turn1
  <2>2. y \in 1..Len(f) + 1 /\ m \in Int /\ m \in Nat /\ y - m - 1 = x
    BY <1>0, <1>5
  <2>3. Rank(f, r, <<y, j, m>>) < Rank(f, r, <<i, j, n>>)
    BY <1>0, <1>5, TurnLowers
  <2>4. Right(f, r, y, j, m)
    <3> HIDE DEF y, m
    <3> QED BY <2>2, <2>3 DEF RightBelow
  <2>5. AtPlus(f, r, y, j, m, a)
    <3>1. is_char_equal(f[i], r[a])
      BY <1>2, <1>5, CharsEqual
    <3>2. ASSUME NEW p \in x..y - 1 PROVE is_char_equal(f[p], r[a])
      <4>1. p \in x..i - 1 \/ p = i
        BY <1>0
      <4> HIDE DEF x
      <4> QED BY <1>1, <3>1, <4>1
    <3> HIDE DEF x, y, m
    <3> QED BY <1>0, <1>1, <2>2, <3>2 DEF AtPlus
  <2> HIDE DEF x, y, m
  <2>6. Turns(f, r)[<<y, j, m>>] <=> Rest(f, r, y - m - 1, a)
    BY <2>4, <2>5 DEF Right
  <2>7. Turns(f, r)[<<i, j, n>>] <=> Rest(f, r, x, a)
    BY <2>1, <2>2, <2>6
  <2> QED BY <2>7 DEF x
<1>6. CASE ~(i <= Len(f) /\ is_char_equal(f[i], f[i - 1]))
  <2> DEFINE k == Repeats(f[i - 1], r, j + 1)
             y == j + 1 + k
             m == n - k
  <2>1. /\ k \in 0..Len(r) - j
        /\ \A l \in j + 1..j + k : is_char_equal(r[l], r[a])
        /\ y > Len(r) \/ ~is_char_equal(r[y], r[a])
    <3> DEFINE b == j + 1
               kk == Repeats(f[i - 1], r, b)
    <3>1. b \in 1..Len(r) + 1
      BY <1>0
    <3>2. /\ kk \in 0..Len(r) + 1 - b
          /\ \A l \in b..b + kk - 1 : is_char_equal(r[l], f[i - 1])
          /\ b + kk > Len(r) \/ ~is_char_equal(r[b + kk], f[i - 1])
      <4> HIDE DEF b
      <4> QED BY <3>1, RepeatsIs
    <3>3. k = kk /\ b + kk = y
      OBVIOUS
    <3> HIDE DEF kk, k, y
    <3>4. kk \in 0..Len(r) - j
      BY <1>0, <3>2
    <3>5. ASSUME NEW l \in j + 1..j + kk PROVE is_char_equal(r[l], r[a])
      <4>1. l \in b..b + kk - 1
        BY <1>0, <3>4
      <4>2. is_char_equal(r[l], f[i - 1])
        BY <3>2, <4>1
      <4> QED BY <1>2, <4>2, CharsEqual
    <3>6. y > Len(r) \/ ~is_char_equal(r[y], r[a])
      BY <1>2, <3>2, <3>3, CharsEqual
    <3> QED BY <3>3, <3>4, <3>5, <3>6
  <2>2. Turns(f, r)[<<i, j, n>>] = IF n >= k THEN Turns(f, r)[<<i, y, m>>] ELSE FALSE
    BY <1>1, <1>3, <1>4, <1>6 DEF Turn1
  <2>3. y \in 1..Len(r) + 1 /\ m \in Int /\ Rank(f, r, <<i, y, m>>) < Rank(f, r, <<i, j, n>>) /\ k \in Nat
    <3> HIDE DEF k
    <3>1. y \in 1..Len(r) + 1 /\ m \in Int /\ k \in Nat
      BY <1>0, <2>1
    <3> QED BY <1>0, <2>1, <3>1, TurnLowers
  <2> HIDE DEF k
  <2>4. Right(f, r, i, y, m)
    <3> HIDE DEF y, m
    <3> QED BY <2>3 DEF RightBelow
  <2>5. Pumped(f, r, x, i, a, j, k)
    <3>1. i <= Len(f) => ~is_char_equal(f[i], r[a])
      BY <1>2, <1>6, CharsEqual
    <3>2. j + 1 + k <= Len(r) + 1
      BY <1>0, <2>1
    <3> HIDE DEF x
    <3> QED BY <1>0, <1>1, <2>1, <2>3, <3>1, <3>2 DEF Pumped
  <2>6. CASE AtLetter(r, y)
    <3>1. Turns(f, r)[<<i, y, m>>] <=> Rest(f, r, i, y)
      BY <2>4, <2>6 DEF Right
    <3>2. y <= Len(r) => r[y] # "+" /\ ~is_char_equal(r[y], r[a])
      BY <1>0, <2>1, <2>3, <2>6 DEF AtLetter
    <3>3. Rest(f, r, x, a) <=> i - x - 1 >= k /\ Rest(f, r, i, y)
      <4> HIDE DEF x
      <4> QED BY <2>5, <3>2, PumpedThenLetter
    <3>4. i - x - 1 = n
      BY <1>0
    <3>5. Turns(f, r)[<<i, j, n>>] <=> Rest(f, r, x, a)
      <4> HIDE DEF x, y, m
      <4> QED BY <2>2, <3>1, <3>3, <3>4
    <3> QED BY <3>5
  <2>7. CASE ~AtLetter(r, y) /\ k = 0
    <3>1. y = j + 1 /\ m = n /\ y <= Len(r) /\ r[y] = "+"
      BY <1>0, <2>3, <2>7 DEF AtLetter
    <3>2. AtPlus(f, r, i, y, m, a)
      <4>1. \A l \in a + 1..y : l \in a + 1..j \/ l = y
        BY <1>0, <1>1, <3>1
      <4>2. a < y
        BY <1>0, <1>1, <3>1
      <4>3. i - m - 1 = x
        BY <3>1
      <4> HIDE DEF x, y, m
      <4> QED BY <1>0, <1>1, <3>1, <4>1, <4>2, <4>3 DEF AtPlus
    <3>3. Turns(f, r)[<<i, y, m>>] <=> Rest(f, r, i - m - 1, a)
      <4> HIDE DEF y, m
      <4> QED BY <2>4, <3>2 DEF Right
    <3>4. n >= k
      BY <1>0, <2>7
    <3>5. m = n
      BY <3>1
    <3> HIDE DEF y, m
    <3> QED BY <2>2, <3>3, <3>4, <3>5
  <2>8. CASE ~AtLetter(r, y) /\ k # 0
    <3>1. k >= 1 /\ y <= Len(r) /\ r[y] = "+"
      BY <1>0, <2>3, <2>8 DEF AtLetter
    <3>2. Rest(f, r, x, a) <=> i - x - 1 >= k /\ Rest(f, r, x + k, j + k)
      <4> HIDE DEF x
      <4> QED BY <2>5, <3>1, PumpedThenPlus
    <3>3. i - x - 1 = n
      BY <1>0
    <3>4. ASSUME n >= k PROVE Turns(f, r)[<<i, y, m>>] <=> Rest(f, r, x + k, j + k)
      <4> DEFINE c == j + k
      <4>1. c \in Letters(r) /\ is_char_equal(r[c], r[a])
        <5>1. c \in j + 1..j + k
          BY <1>0, <2>3, <3>1
        <5> HIDE DEF c, x
        <5> QED BY <2>5, <5>1, PumpedFacts
      <4>2. c < y /\ \A l \in c + 1..y : l = y
        BY <1>0, <2>3
      <4>3. m \in Nat /\ i - m - 1 = x + k /\ x + k >= 1
        BY <1>0, <2>3, <3>4
      <4>4. ASSUME NEW p \in x + k..i - 1 PROVE is_char_equal(f[p], r[c])
        <5>1. p \in x..i - 1
          BY <1>0, <2>3
        <5> HIDE DEF c, x
        <5> QED BY <1>1, <4>1, <5>1, CharsEqual
      <4>5. AtPlus(f, r, i, y, m, c)
        <5> HIDE DEF c, x, y, m
        <5> QED BY <3>1, <4>1, <4>2, <4>3, <4>4 DEF AtPlus
      <4>6. Turns(f, r)[<<i, y, m>>] <=> Rest(f, r, i - m - 1, c)
        <5> HIDE DEF c, x, y, m
        <5> QED BY <2>4, <4>5 DEF Right
      <4>7. Turns(f, r)[<<i, y, m>>] <=> Rest(f, r, x + k, c)
        <5> HIDE DEF c, x, y, m
        <5> QED BY <4>3, <4>6
      <4> QED BY <4>7
    <3>5. Turns(f, r)[<<i, j, n>>] <=> Rest(f, r, x, a)
      <4> HIDE DEF x, y, m
      <4> QED BY <2>2, <3>2, <3>3, <3>4
    <3> QED BY <3>5
  <2> QED BY <2>6, <2>7, <2>8
<1> QED BY <1>5, <1>6
LEMMA AllRight ==
  ASSUME NEW f \in Text, NEW r \in Text, NoPlus(f),
         NEW i \in 1..Len(f) + 1, NEW j \in 1..Len(r) + 1, NEW n \in Int
  PROVE  Right(f, r, i, j, n)
<1> DEFINE S(N) == \A x \in 1..Len(f) + 1, y \in 1..Len(r) + 1, m \in Int :
                     Rank(f, r, <<x, y, m>>) < N => Right(f, r, x, y, m)
           T == {N \in Nat : S(N)}
<1>1. ASSUME NEW x \in 1..Len(f) + 1, NEW y \in 1..Len(r) + 1, NEW m \in Int
      PROVE  Rank(f, r, <<x, y, m>>) \in Nat
  <2>1. Len(f) \in Nat /\ Len(r) \in Nat
    BY DEF Text
  <2>2. Rank(f, r, <<x, y, m>>) = (Len(f) + 1 - x) + (Len(r) + 1 - y)
    BY DEF Rank
  <2> QED BY <2>1, <2>2
<1>2. 0 \in T
  <2>1. S(0)
    BY <1>1
  <2> HIDE DEF S
  <2> QED BY <2>1
<1>3. ASSUME NEW N \in T PROVE N + 1 \in T
  <2>1. ASSUME NEW x \in 1..Len(f) + 1, NEW y \in 1..Len(r) + 1, NEW m \in Int, Rank(f, r, <<x, y, m>>) < N + 1
        PROVE  Right(f, r, x, y, m)
    <3>1. RightBelow(f, r, x, y, m)
      <4> SUFFICES ASSUME NEW u \in 1..Len(f) + 1, NEW v \in 1..Len(r) + 1, NEW w \in Int,
                          Rank(f, r, <<u, v, w>>) < Rank(f, r, <<x, y, m>>)
                   PROVE  Right(f, r, u, v, w)
        BY DEF RightBelow
      <4>1. Rank(f, r, <<u, v, w>>) \in Nat /\ Rank(f, r, <<x, y, m>>) \in Nat /\ N \in Nat
        BY <1>1
      <4>2. Rank(f, r, <<u, v, w>>) < N
        BY <2>1, <4>1
      <4>3. S(N)
        OBVIOUS
      <4> QED BY <4>2, <4>3
    <3>2. AtLetter(r, y) => (Turns(f, r)[<<x, y, m>>] <=> Rest(f, r, x, y))
      BY <3>1, LetterStep
    <3>3. \A a : AtPlus(f, r, x, y, m, a) => (Turns(f, r)[<<x, y, m>>] <=> Rest(f, r, x - m - 1, a))
      BY <3>1, PlusStep
    <3> QED BY <3>2, <3>3 DEF Right
  <2>2. S(N + 1)
    BY <2>1
  <2> HIDE DEF S
  <2> QED BY <2>2
<1>4. T = Nat
  <2>1. T \in SUBSET Nat
    OBVIOUS
  <2> HIDE DEF T
  <2> QED BY <1>2, <1>3, <2>1, AllNat
<1> DEFINE N == Rank(f, r, <<i, j, n>>)
<1>5. N \in Nat /\ N + 1 \in Nat /\ N < N + 1
  <2>1. N \in Nat
    BY <1>1
  <2> HIDE DEF N
  <2> QED BY <2>1
<1>6. S(N + 1)
  <2>1. N + 1 \in T
    <3> HIDE DEF T, N
    <3> QED BY <1>4, <1>5
  <2> QED BY <2>1
<1> QED BY <1>5, <1>6

(* is_valid_regex says what the pattern means.                             *)
LEMMA MatcherRight ==
  ASSUME NEW f \in Text, NEW r, IsPattern(r), "+" \notin ToSet(f)
  PROVE  is_valid_regex(f, r) <=> Accepts(f, r)
<1>1. r \in Text /\ Len(f) \in Nat /\ Len(r) \in Nat
  BY DEF IsPattern, Text
<1>2. NoPlus(f)
  BY <1>1 DEF NoPlus, ToSet, Text
<1>3. AtLetter(r, 1)
  <2>1. CASE r = <<>>
    BY <2>1 DEF AtLetter
  <2>2. CASE r # <<>>
    BY <2>2 DEF AtLetter, IsPattern
  <2> QED BY <2>1, <2>2
<1>4. 1 \in 1..Len(f) + 1 /\ 1 \in 1..Len(r) + 1 /\ 0 \in Int
  BY <1>1
<1>5. Right(f, r, 1, 1, 0)
  BY <1>1, <1>2, <1>4, AllRight
<1>6. Turns(f, r)[<<1, 1, 0>>] <=> Rest(f, r, 1, 1)
  BY <1>3, <1>5 DEF Right
<1> QED BY <1>1, <1>6, RegexIs, AcceptsIs

(* is_valid_regex (L295-328), for all the names on the disk and every      *)
(* pattern getopt.c lets through, accepts a name if and only if the        *)
(* pattern means it: what a + takes and what the characters after it take  *)
(* back never loses a match and never makes one up.                        *)
THEOREM PatternAlwaysAgrees == Spec => []PatternAgrees
<1>1. IInv => PatternAgrees
  <2> SUFFICES ASSUME IInv, Given("name"), NEW p \in Files, "+" \notin ToSet(Last(p))
               PROVE  is_valid_regex(Last(p), opts.name) <=> Accepts(Last(p), opts.name)
    BY DEF PatternAgrees
  <2>1. Shape
    BY DEF IInv
  <2>2. PICK d \in Dirs : \E i \in DOMAIN disk[d] : p = Append(d, disk[d][i].name)
    BY <2>1, FilesAre
  <2>3. PICK i \in DOMAIN disk[d] : p = Append(d, disk[d][i].name)
    BY <2>2
  <2>4. d \in Paths /\ disk[d][i].name \in Names
    BY <2>1, DirsAre, EntriesAre
  <2>5. Last(p) = disk[d][i].name
    BY <2>3, <2>4 DEF Last, Paths
  <2>6. Last(p) \in Text
    BY <2>4, <2>5 DEF Names, Text
  <2>7. IsPattern(opts.name)
    BY <2>1, SearchAssumption DEF Shape, Given
  <2> QED BY <2>6, <2>7, MatcherRight
<1> QED BY <1>1, Always, PTL

=============================================================================
