--------------------------- MODULE ExtTreeProofs ---------------------------
(* The directory tree of a served ext volume, for any number of inodes and   *)
(* names, any width of the link count and any number of failing calls.       *)
(*                                                                           *)
(* Consistent is almost inductive: what it lacks is that the directory tree  *)
(* is finite, so that counting it means something, and that the root stays a *)
(* directory without a name.  Connected is inductive beside it: a directory  *)
(* that moves was reached without its own subtree, unless it moves into it.  *)
EXTENDS ExtTree, FiniteSetTheorems, TLAPS

(* Names and subdirectories, of any volume. *)
NamesIn(f, i) == {e \in f.ent : e[3] = i}
SubsIn(f, d)  == {e \in f.ent : e[1] = d /\ f.kind[e[3]] = "dir"}

Rooted(f) ==
    f.kind[Root] = "dir" /\ \A e \in f.ent : e[3] # Root

Unique(f) ==
    \A e, g \in f.ent : (e[1] = g[1] /\ e[2] = g[2]) => e = g

Leads(f) ==
    \A e \in f.ent : f.kind[e[1]] = "dir" /\ f.kind[e[3]] # "free"

Counted(f) ==
    \A i \in Inodes :
        /\ f.kind[i] = "file" => Cardinality(NamesIn(f, i)) = f.links[i]
        /\ f.kind[i] = "dir"  => f.links[i] = 2 + Cardinality(SubsIn(f, i))

Hung(f) ==
    \A i \in Inodes : (f.kind[i] = "dir" /\ i # Root) =>
        \E e \in f.ent : NamesIn(f, i) = {e} /\ f.up[i] = e[1]

Sound(f) ==
    IsFiniteSet(f.ent) /\ Rooted(f) /\ Unique(f) /\ Leads(f) /\ Counted(f) /\ Hung(f)

Joined(f) ==
    \A i \in Inodes : f.kind[i] # "free" => Below(f, Root, i)

IInv ==
    TypeOK /\ (~damaged => Sound(fs) /\ (~looped => Joined(fs)))

-----------------------------------------------------------------------------
(* Counting entries *)

(* What there is to count is finite. *)
LEMMA Finite ==
    ASSUME NEW f, IsFiniteSet(f.ent), NEW j
    PROVE  /\ IsFiniteSet(NamesIn(f, j)) /\ Cardinality(NamesIn(f, j)) \in Nat
           /\ IsFiniteSet(SubsIn(f, j)) /\ Cardinality(SubsIn(f, j)) \in Nat
  <1>1. NamesIn(f, j) \in SUBSET f.ent /\ SubsIn(f, j) \in SUBSET f.ent
    BY DEF NamesIn, SubsIn
  <1>2. QED
    BY <1>1, FS_Subset, FS_CardinalityType

(* There is no such name. *)
Vacant(f, d, n) == \A e \in f.ent : ~(e[1] = d /\ e[2] = n)

(* The kinds differ at most for i. *)
Others(f, g, i) == \A j \in Inodes \ {i} : g.kind[j] = f.kind[j]

(* The same entries are those of directories. *)
SameDirs(f, g, E) == \A e \in E : g.kind[e[3]] = "dir" <=> f.kind[e[3]] = "dir"

(* How the counts of g differ from those of f, with entry x more or less. *)
More(f, g, x) ==
    /\ IsFiniteSet(g.ent)
    /\ \A j \in Inodes :
         /\ x[3] # j => NamesIn(g, j) = NamesIn(f, j)
         /\ x[3] = j => /\ NamesIn(g, j) = NamesIn(f, j) \cup {x}
                        /\ Cardinality(NamesIn(g, j)) = Cardinality(NamesIn(f, j)) + 1
         /\ ~(x[1] = j /\ g.kind[x[3]] = "dir") => SubsIn(g, j) = SubsIn(f, j)
         /\ (x[1] = j /\ g.kind[x[3]] = "dir") =>
              Cardinality(SubsIn(g, j)) = Cardinality(SubsIn(f, j)) + 1

Less(f, g, x) ==
    /\ IsFiniteSet(g.ent)
    /\ \A j \in Inodes :
         /\ x[3] # j => NamesIn(g, j) = NamesIn(f, j)
         /\ x[3] = j => /\ NamesIn(g, j) = NamesIn(f, j) \ {x}
                        /\ Cardinality(NamesIn(g, j)) = Cardinality(NamesIn(f, j)) - 1
         /\ ~(x[1] = j /\ f.kind[x[3]] = "dir") => SubsIn(g, j) = SubsIn(f, j)
         /\ (x[1] = j /\ f.kind[x[3]] = "dir") =>
              Cardinality(SubsIn(g, j)) = Cardinality(SubsIn(f, j)) - 1

(* One entry more. *)
LEMMA OneMore ==
    ASSUME NEW f, IsFiniteSet(f.ent), NEW x, x \notin f.ent,
           NEW g, g.ent = f.ent \cup {x}, SameDirs(f, g, f.ent)
    PROVE  More(f, g, x)
  <1>1. IsFiniteSet(g.ent)
    BY FS_AddElement
  <1> SUFFICES ASSUME NEW j \in Inodes
               PROVE  /\ x[3] # j => NamesIn(g, j) = NamesIn(f, j)
                      /\ x[3] = j => /\ NamesIn(g, j) = NamesIn(f, j) \cup {x}
                                     /\ Cardinality(NamesIn(g, j)) = Cardinality(NamesIn(f, j)) + 1
                      /\ ~(x[1] = j /\ g.kind[x[3]] = "dir") => SubsIn(g, j) = SubsIn(f, j)
                      /\ (x[1] = j /\ g.kind[x[3]] = "dir") =>
                           Cardinality(SubsIn(g, j)) = Cardinality(SubsIn(f, j)) + 1
    BY <1>1 DEF More
  <1>0. IsFiniteSet(NamesIn(f, j)) /\ IsFiniteSet(SubsIn(f, j))
    BY Finite
  <1>2. x[3] # j => NamesIn(g, j) = NamesIn(f, j)
    BY DEF NamesIn
  <1>3. ASSUME x[3] = j
        PROVE  /\ NamesIn(g, j) = NamesIn(f, j) \cup {x}
               /\ Cardinality(NamesIn(g, j)) = Cardinality(NamesIn(f, j)) + 1
    <2>1. NamesIn(g, j) = NamesIn(f, j) \cup {x} /\ x \notin NamesIn(f, j)
      BY <1>3 DEF NamesIn
    <2>2. QED
      BY <1>0, <2>1, FS_AddElement
  <1>4. ASSUME ~(x[1] = j /\ g.kind[x[3]] = "dir") PROVE SubsIn(g, j) = SubsIn(f, j)
    BY <1>4 DEF SubsIn, SameDirs
  <1>5. ASSUME x[1] = j, g.kind[x[3]] = "dir"
        PROVE  Cardinality(SubsIn(g, j)) = Cardinality(SubsIn(f, j)) + 1
    <2>1. SubsIn(g, j) = SubsIn(f, j) \cup {x} /\ x \notin SubsIn(f, j)
      BY <1>5 DEF SubsIn, SameDirs
    <2>2. QED
      BY <1>0, <2>1, FS_AddElement
  <1>6. QED
    BY <1>2, <1>3, <1>4, <1>5

(* One entry less. *)
LEMMA OneLess ==
    ASSUME NEW f, IsFiniteSet(f.ent), NEW x \in f.ent,
           NEW g, g.ent = f.ent \ {x}, SameDirs(f, g, g.ent)
    PROVE  Less(f, g, x)
  <1>1. IsFiniteSet(g.ent)
    BY FS_RemoveElement
  <1> SUFFICES ASSUME NEW j \in Inodes
               PROVE  /\ x[3] # j => NamesIn(g, j) = NamesIn(f, j)
                      /\ x[3] = j => /\ NamesIn(g, j) = NamesIn(f, j) \ {x}
                                     /\ Cardinality(NamesIn(g, j)) = Cardinality(NamesIn(f, j)) - 1
                      /\ ~(x[1] = j /\ f.kind[x[3]] = "dir") => SubsIn(g, j) = SubsIn(f, j)
                      /\ (x[1] = j /\ f.kind[x[3]] = "dir") =>
                           Cardinality(SubsIn(g, j)) = Cardinality(SubsIn(f, j)) - 1
    BY <1>1 DEF Less
  <1>0. IsFiniteSet(NamesIn(f, j)) /\ IsFiniteSet(SubsIn(f, j))
    BY Finite
  <1>2. x[3] # j => NamesIn(g, j) = NamesIn(f, j)
    BY DEF NamesIn
  <1>3. ASSUME x[3] = j
        PROVE  /\ NamesIn(g, j) = NamesIn(f, j) \ {x}
               /\ Cardinality(NamesIn(g, j)) = Cardinality(NamesIn(f, j)) - 1
    <2>1. NamesIn(g, j) = NamesIn(f, j) \ {x} /\ x \in NamesIn(f, j)
      BY <1>3 DEF NamesIn
    <2>2. QED
      BY <1>0, <2>1, FS_RemoveElement
  <1>4. ASSUME ~(x[1] = j /\ f.kind[x[3]] = "dir") PROVE SubsIn(g, j) = SubsIn(f, j)
    BY <1>4 DEF SubsIn, SameDirs
  <1>5. ASSUME x[1] = j, f.kind[x[3]] = "dir"
        PROVE  Cardinality(SubsIn(g, j)) = Cardinality(SubsIn(f, j)) - 1
    <2>1. SubsIn(g, j) = SubsIn(f, j) \ {x} /\ x \in SubsIn(f, j)
      BY <1>5 DEF SubsIn, SameDirs
    <2>2. QED
      BY <1>0, <2>1, FS_RemoveElement
  <1>6. QED
    BY <1>2, <1>3, <1>4, <1>5

-----------------------------------------------------------------------------
(* The fields of what the requests make of a volume *)

(* Bounds of a link count. *)
LEMMA Width == 0 \in 0 .. Word - 1 /\ 1 \in 0 .. Word - 1 /\ 2 \in 0 .. Word - 1
               /\ Word \in Nat /\ DirMax \in Nat /\ 2 < DirMax /\ DirMax < Word
  BY TreeAssumption

(* The fields of a volume. *)
LEMMA Fields ==
    ASSUME NEW f \in FsType
    PROVE  /\ f.kind \in [Inodes -> {"free", "file", "dir"}]
           /\ f.links \in [Inodes -> 0 .. Word - 1]
           /\ f.ent \in SUBSET (Inodes \X Names \X Inodes)
           /\ f.up \in [Inodes -> Inodes]
  BY DEF FsType

(* The entry changes, the rest stays. *)
LEMMA EnteredIs ==
    ASSUME NEW f \in FsType, NEW d \in Inodes, NEW n \in Names, NEW i \in Inodes
    PROVE  /\ Entered(f, d, n, i) \in FsType
           /\ Entered(f, d, n, i).kind = f.kind /\ Entered(f, d, n, i).links = f.links
           /\ Entered(f, d, n, i).ent = f.ent \cup {<<d, n, i>>}
           /\ Entered(f, d, n, i).up = f.up
  BY DEF FsType, Entered

(* The entry goes, the rest stays. *)
LEMMA UnlinkedIs ==
    ASSUME NEW f \in FsType, NEW d, NEW n, NEW i
    PROVE  /\ Unlinked(f, d, n, i) \in FsType
           /\ Unlinked(f, d, n, i).kind = f.kind /\ Unlinked(f, d, n, i).links = f.links
           /\ Unlinked(f, d, n, i).ent = f.ent \ {<<d, n, i>>}
           /\ Unlinked(f, d, n, i).up = f.up
  BY DEF FsType, Unlinked

(* The inode is given back. *)
LEMMA FreedIs ==
    ASSUME NEW f \in FsType, NEW i \in Inodes
    PROVE  /\ Freed(f, i) \in FsType
           /\ Freed(f, i).kind = [f.kind EXCEPT ![i] = "free"]
           /\ Freed(f, i).links = [f.links EXCEPT ![i] = 0]
           /\ Freed(f, i).ent = f.ent /\ Freed(f, i).up = f.up
  BY Width DEF FsType, Freed

(* A count goes down. *)
LEMMA LessenedIs ==
    ASSUME NEW f \in FsType, NEW d \in Inodes
    PROVE  /\ Lessened(f, d) \in FsType
           /\ Lessened(f, d).kind = f.kind /\ Lessened(f, d).ent = f.ent
           /\ Lessened(f, d).up = f.up
           /\ Lessened(f, d).links = [f.links EXCEPT ![d] = IF @ > 2 THEN @ - 1 ELSE @]
  <1> DEFINE l == IF f.links[d] > 2 THEN f.links[d] - 1 ELSE f.links[d]
  <1>1. f.links[d] \in 0 .. Word - 1
    BY Fields
  <1>2. l \in 0 .. Word - 1
    BY <1>1, Width
  <1> HIDE DEF l
  <1>3. Lessened(f, d) = [f EXCEPT !.links[d] = l]
    BY DEF Lessened, l
  <1>4. [f.links EXCEPT ![d] = IF @ > 2 THEN @ - 1 ELSE @] = [f.links EXCEPT ![d] = l]
    BY DEF l
  <1>5. QED
    BY <1>2, <1>3, <1>4 DEF FsType

(* A new inode. *)
LEMMA NewFileIs ==
    ASSUME NEW f \in FsType, NEW i \in Inodes
    PROVE  LET new == [f EXCEPT !.kind[i] = "file", !.links[i] = 1]
           IN /\ new \in FsType /\ new.kind = [f.kind EXCEPT ![i] = "file"]
              /\ new.links = [f.links EXCEPT ![i] = 1] /\ new.ent = f.ent /\ new.up = f.up
  BY Width DEF FsType

(* One link more, within its width. *)
LEMMA MoreIs ==
    ASSUME NEW f \in FsType, NEW i \in Inodes
    PROVE  LET new == [f EXCEPT !.links[i] = (@ + 1) % Word]
           IN /\ new \in FsType /\ new.kind = f.kind /\ new.ent = f.ent /\ new.up = f.up
              /\ f.links[i] + 1 # Word => new.links = [f.links EXCEPT ![i] = @ + 1]
  <1> DEFINE l == (f.links[i] + 1) % Word
  <1>1. f.links[i] \in 0 .. Word - 1
    BY Fields
  <1>2. l \in 0 .. Word - 1 /\ (f.links[i] + 1 # Word => l = f.links[i] + 1)
    BY <1>1, Width
  <1> HIDE DEF l
  <1>3. [f EXCEPT !.links[i] = (@ + 1) % Word] = [f EXCEPT !.links[i] = l]
    BY DEF l
  <1>4. QED
    BY <1>2, <1>3 DEF FsType

NewDir(f, d, i) ==
    [f EXCEPT !.kind[i] = "dir", !.up[i] = d, !.links[i] = 2, !.links[d] = (f.links[d] + 1) % Word]

(* A new directory and its parent's count. *)
LEMMA NewDirIs ==
    ASSUME NEW f \in FsType, NEW i \in Inodes, NEW d \in Inodes
    PROVE  LET new == NewDir(f, d, i)
           IN /\ new \in FsType /\ new.kind = [f.kind EXCEPT ![i] = "dir"]
              /\ new.ent = f.ent /\ new.up = [f.up EXCEPT ![i] = d]
              /\ f.links[d] + 1 # Word =>
                   new.links = [f.links EXCEPT ![i] = 2, ![d] = f.links[d] + 1]
  <1> DEFINE l == (f.links[d] + 1) % Word
  <1>1. f.links[d] \in 0 .. Word - 1 /\ f.links \in [Inodes -> 0 .. Word - 1]
    BY Fields
  <1>2. l \in 0 .. Word - 1 /\ (f.links[d] + 1 # Word => l = f.links[d] + 1)
    BY <1>1, Width
  <1> HIDE DEF l
  <1> DEFINE one == [f EXCEPT !.kind[i] = "dir", !.up[i] = d]
             two == [one EXCEPT !.links[i] = 2]
             new == [two EXCEPT !.links[d] = l]
  <1>3. /\ one \in FsType /\ one.kind = [f.kind EXCEPT ![i] = "dir"]
        /\ one.up = [f.up EXCEPT ![i] = d] /\ one.ent = f.ent /\ one.links = f.links
    BY DEF FsType
  <1> HIDE DEF one
  <1>4. /\ two \in FsType /\ two.kind = one.kind /\ two.up = one.up /\ two.ent = one.ent
        /\ two.links = [one.links EXCEPT ![i] = 2]
    BY <1>3, Width DEF FsType
  <1> HIDE DEF two
  <1>5. /\ new \in FsType /\ new.kind = two.kind /\ new.up = two.up /\ new.ent = two.ent
        /\ new.links = [two.links EXCEPT ![d] = l]
    BY <1>2, <1>4 DEF FsType
  <1>6. new = NewDir(f, d, i)
    BY DEF NewDir, one, two, l
  <1> HIDE DEF new
  <1>7. QED
    BY <1>2, <1>3, <1>4, <1>5, <1>6

-----------------------------------------------------------------------------
(* A sound tree stays sound *)

(* A free inode has no name and no entry. *)
LEMMA FreeIs ==
    ASSUME NEW f \in FsType, Sound(f), NEW i \in Inodes, f.kind[i] = "free"
    PROVE  /\ i # Root /\ NamesIn(f, i) = {} /\ Cardinality(NamesIn(f, i)) = 0
           /\ SubsIn(f, i) = {} /\ Cardinality(SubsIn(f, i)) = 0
           /\ \A e \in f.ent : e[1] # i /\ e[3] # i
  <1>1. i # Root /\ \A e \in f.ent : e[1] # i /\ e[3] # i
    BY DEF Sound, Rooted, Leads
  <1>2. NamesIn(f, i) = {} /\ SubsIn(f, i) = {}
    BY <1>1 DEF NamesIn, SubsIn
  <1>3. QED
    BY <1>1, <1>2, FS_EmptySet

(* A file under a new name: CREATE and SYMLINK. *)
LEMMA FileSound ==
    ASSUME NEW f \in FsType, Sound(f), NEW i \in Inodes, f.kind[i] = "free",
           NEW d \in Inodes, f.kind[d] = "dir", NEW n \in Names,
           Vacant(f, d, n),
           NEW g \in FsType, g.kind = [f.kind EXCEPT ![i] = "file"],
           g.links = [f.links EXCEPT ![i] = 1], g.ent = f.ent \cup {<<d, n, i>>}, g.up = f.up
    PROVE  Sound(g)
  <1> USE DEF Vacant
  <1> DEFINE x == <<d, n, i>>
  <1>1. /\ x[1] = d /\ x[2] = n /\ x[3] = i /\ x \notin f.ent /\ g.ent = f.ent \cup {x}
    OBVIOUS
  <1> HIDE DEF x
  <1>2. /\ i # Root /\ i # d /\ \A e \in f.ent : e[1] # i /\ e[3] # i
        /\ NamesIn(f, i) = {} /\ Cardinality(NamesIn(f, i)) = 0
    BY FreeIs
  <1>3. g.kind[i] = "file" /\ g.links[i] = 1
        /\ \A j \in Inodes \ {i} : g.kind[j] = f.kind[j] /\ g.links[j] = f.links[j]
    BY Fields
  <1>4. \A e \in f.ent : e[1] \in Inodes /\ e[3] \in Inodes
    BY Fields
  <1>5. \A e \in f.ent : g.kind[e[3]] = f.kind[e[3]] /\ g.kind[e[1]] = f.kind[e[1]]
    BY <1>2, <1>3, <1>4
  <1>6. IsFiniteSet(f.ent)
    BY DEF Sound
  <1>7. \A j \in Inodes :
          /\ IsFiniteSet(g.ent)
          /\ i # j => NamesIn(g, j) = NamesIn(f, j)
          /\ Cardinality(NamesIn(g, i)) = 0 + 1
          /\ SubsIn(g, j) = SubsIn(f, j)
    <2>1. SameDirs(f, g, f.ent)
      BY <1>5 DEF SameDirs
    <2>2. More(f, g, x)
      BY <1>1, <1>6, <2>1, OneMore
    <2>3. QED
      BY <1>1, <1>2, <1>3, <2>2 DEF More
  <1>8. Rooted(g)
    BY <1>1, <1>2, <1>3, TreeAssumption DEF Sound, Rooted
  <1>9. Unique(g)
    BY <1>1 DEF Sound, Unique
  <1>10. Leads(g)
    BY <1>1, <1>2, <1>3, <1>5 DEF Sound, Leads
  <1>11. Counted(g)
    <2>1. \A j \in Inodes \ {i} :
            /\ g.kind[j] = "file" => Cardinality(NamesIn(g, j)) = g.links[j]
            /\ g.kind[j] = "dir"  => g.links[j] = 2 + Cardinality(SubsIn(g, j))
      BY <1>3, <1>7 DEF Sound, Counted
    <2>2. QED
      BY <1>3, <1>7, <2>1 DEF Counted
  <1>12. Hung(g)
    BY <1>1, <1>3, <1>7 DEF Sound, Hung
  <1>13. QED
    BY <1>7, <1>8, <1>9, <1>10, <1>11, <1>12 DEF Sound

(* A directory under a new name: MKDIR. *)
LEMMA DirSound ==
    ASSUME NEW f \in FsType, Sound(f), NEW i \in Inodes, f.kind[i] = "free",
           NEW d \in Inodes, f.kind[d] = "dir", NEW n \in Names,
           Vacant(f, d, n),
           NEW g \in FsType, g.kind = [f.kind EXCEPT ![i] = "dir"],
           g.links = [f.links EXCEPT ![i] = 2, ![d] = f.links[d] + 1],
           g.ent = f.ent \cup {<<d, n, i>>}, g.up = [f.up EXCEPT ![i] = d]
    PROVE  Sound(g)
  <1> USE DEF Vacant
  <1> DEFINE x == <<d, n, i>>
  <1>1. /\ x[1] = d /\ x[2] = n /\ x[3] = i /\ x \notin f.ent /\ g.ent = f.ent \cup {x}
    OBVIOUS
  <1> HIDE DEF x
  <1>2. /\ i # Root /\ i # d /\ \A e \in f.ent : e[1] # i /\ e[3] # i
        /\ NamesIn(f, i) = {} /\ Cardinality(SubsIn(f, i)) = 0
    BY FreeIs
  <1>3. /\ g.kind[i] = "dir" /\ g.links[i] = 2 /\ g.up[i] = d
        /\ g.kind[d] = "dir" /\ g.links[d] = f.links[d] + 1
        /\ \A j \in Inodes \ {i} : g.kind[j] = f.kind[j] /\ g.up[j] = f.up[j]
        /\ \A j \in Inodes \ {i, d} : g.links[j] = f.links[j]
    BY <1>2, Fields
  <1>4. \A e \in f.ent : e[1] \in Inodes /\ e[3] \in Inodes
    BY Fields
  <1>5. \A e \in f.ent : g.kind[e[3]] = f.kind[e[3]] /\ g.kind[e[1]] = f.kind[e[1]]
    BY <1>2, <1>3, <1>4
  <1>6. IsFiniteSet(f.ent)
    BY DEF Sound
  <1>7. \A j \in Inodes :
          /\ IsFiniteSet(g.ent)
          /\ i # j => NamesIn(g, j) = NamesIn(f, j)
          /\ i = j => NamesIn(g, j) = {x}
          /\ d # j => SubsIn(g, j) = SubsIn(f, j)
          /\ Cardinality(SubsIn(g, d)) = Cardinality(SubsIn(f, d)) + 1
    <2>1. SameDirs(f, g, f.ent)
      BY <1>5 DEF SameDirs
    <2>2. More(f, g, x)
      BY <1>1, <1>6, <2>1, OneMore
    <2>3. QED
      BY <1>1, <1>2, <1>3, <2>2 DEF More
  <1>8. Rooted(g)
    BY <1>1, <1>2, <1>3, TreeAssumption DEF Sound, Rooted
  <1>9. Unique(g)
    BY <1>1 DEF Sound, Unique
  <1>10. Leads(g)
    BY <1>1, <1>2, <1>3, <1>5 DEF Sound, Leads
  <1>11. Counted(g)
    <2>1. \A j \in Inodes \ {i, d} :
            /\ g.kind[j] = "file" => Cardinality(NamesIn(g, j)) = g.links[j]
            /\ g.kind[j] = "dir"  => g.links[j] = 2 + Cardinality(SubsIn(g, j))
      BY <1>3, <1>7 DEF Sound, Counted
    <2>2. f.links[d] = 2 + Cardinality(SubsIn(f, d)) /\ Cardinality(SubsIn(f, d)) \in Nat
      BY <1>6, Finite DEF Sound, Counted
    <2>3. g.links[d] = 2 + Cardinality(SubsIn(g, d))
      BY <1>3, <1>7, <2>2
    <2>4. g.links[i] = 2 + Cardinality(SubsIn(g, i))
      BY <1>2, <1>3, <1>7
    <2>5. QED
      BY <1>3, <2>1, <2>3, <2>4 DEF Counted
  <1>12. Hung(g)
    <2>1. NamesIn(g, i) = {x} /\ g.up[i] = x[1] /\ x \in g.ent
      BY <1>1, <1>3, <1>7
    <2>2. QED
      BY <1>1, <1>3, <1>7, <2>1 DEF Sound, Hung
  <1>13. QED
    BY <1>7, <1>8, <1>9, <1>10, <1>11, <1>12 DEF Sound

(* A file under one more name: LINK. *)
LEMMA LinkSound ==
    ASSUME NEW f \in FsType, Sound(f), NEW i \in Inodes, f.kind[i] = "file",
           NEW d \in Inodes, f.kind[d] = "dir", NEW n \in Names,
           Vacant(f, d, n),
           NEW g \in FsType, g.kind = f.kind, g.links = [f.links EXCEPT ![i] = @ + 1],
           g.ent = f.ent \cup {<<d, n, i>>}, g.up = f.up
    PROVE  Sound(g)
  <1> USE DEF Vacant
  <1> DEFINE x == <<d, n, i>>
  <1>1. /\ x[1] = d /\ x[2] = n /\ x[3] = i /\ x \notin f.ent /\ g.ent = f.ent \cup {x}
    OBVIOUS
  <1> HIDE DEF x
  <1>2. g.links[i] = f.links[i] + 1 /\ \A j \in Inodes \ {i} : g.links[j] = f.links[j]
    BY Fields
  <1>3. IsFiniteSet(f.ent)
    BY DEF Sound
  <1>4. \A j \in Inodes :
          /\ IsFiniteSet(g.ent)
          /\ i # j => NamesIn(g, j) = NamesIn(f, j)
          /\ Cardinality(NamesIn(g, i)) = Cardinality(NamesIn(f, i)) + 1
          /\ SubsIn(g, j) = SubsIn(f, j)
    <2>1. SameDirs(f, g, f.ent)
      BY DEF SameDirs
    <2>2. More(f, g, x)
      BY <1>1, <1>3, <2>1, OneMore
    <2>3. QED
      BY <1>1, <2>2 DEF More
  <1>5. Rooted(g)
    BY <1>1 DEF Sound, Rooted
  <1>6. Unique(g)
    BY <1>1 DEF Sound, Unique
  <1>7. Leads(g)
    BY <1>1 DEF Sound, Leads
  <1>8. Counted(g)
    BY <1>2, <1>4 DEF Sound, Counted
  <1>9. Hung(g)
    BY <1>1, <1>4 DEF Sound, Hung
  <1>10. QED
    BY <1>4, <1>5, <1>6, <1>7, <1>8, <1>9 DEF Sound

(* A count of a free inode matters to nobody. *)
LEMMA FreedSound ==
    ASSUME NEW f \in FsType, Sound(f), NEW i \in Inodes, f.kind[i] = "free",
           NEW g \in FsType, g.kind = f.kind, g.ent = f.ent, g.up = f.up,
           \A j \in Inodes \ {i} : g.links[j] = f.links[j]
    PROVE  Sound(g)
  <1>1. \A j \in Inodes : NamesIn(g, j) = NamesIn(f, j) /\ SubsIn(g, j) = SubsIn(f, j)
    BY DEF NamesIn, SubsIn
  <1>2. Counted(g)
    BY <1>1 DEF Sound, Counted
  <1>3. Hung(g)
    BY <1>1 DEF Sound, Hung
  <1>4. QED
    BY <1>2, <1>3 DEF Sound, Rooted, Unique, Leads

(* A name of a file goes, and with the last one the file: REMOVE. *)
LEMMA RemoveSound ==
    ASSUME NEW f \in FsType, Sound(f), NEW d \in Inodes, NEW n \in Names, NEW i \in Inodes,
           <<d, n, i>> \in f.ent, f.kind[i] = "file"
    PROVE  Sound(RemovedFile(f, d, n, i)) /\ RemovedFile(f, d, n, i) \in FsType
  <1> DEFINE x == <<d, n, i>>
             g == RemovedFile(f, d, n, i)
             u == Unlinked(f, d, n, i)
  <1>1. x[1] = d /\ x[2] = n /\ x[3] = i /\ x \in f.ent
    OBVIOUS
  <1>2. u \in FsType /\ u.kind = f.kind /\ u.links = f.links /\ u.ent = f.ent \ {x} /\ u.up = f.up
    BY UnlinkedIs
  <1>3. IsFiniteSet(f.ent) /\ Cardinality(NamesIn(f, i)) = f.links[i]
    BY DEF Sound, Counted
  <1> HIDE DEF x, u
  <1>4. CASE f.links[i] > 1
    <2>0. f.links[i] \in 0 .. Word - 1
      BY Fields
    <2>1. f.links[i] - 1 \in 0 .. Word - 1
      BY <1>4, <2>0, Width
    <2>2. g = [u EXCEPT !.links[i] = f.links[i] - 1]
      BY <1>2, <1>4 DEF RemovedFile, u
    <2> HIDE DEF g
    <2>3. /\ g \in FsType /\ g.kind = f.kind /\ g.ent = f.ent \ {x} /\ g.up = f.up
          /\ g.links = [f.links EXCEPT ![i] = f.links[i] - 1]
      BY <1>2, <2>1, <2>2 DEF FsType
    <2>4. /\ g.links[i] = f.links[i] - 1
          /\ \A j \in Inodes \ {i} : g.links[j] = f.links[j]
      BY <2>3, Fields
    <2>5. SameDirs(f, g, g.ent)
      BY <2>3 DEF SameDirs
    <2>6. Less(f, g, x)
      BY <1>1, <1>3, <2>3, <2>5, OneLess
    <2>7. Rooted(g) /\ Unique(g) /\ Leads(g)
      BY <2>3 DEF Sound, Rooted, Unique, Leads
    <2>8. \A j \in Inodes : SubsIn(g, j) = SubsIn(f, j)
      BY <1>1, <2>6 DEF Less
    <2>9. \A j \in Inodes \ {i} : NamesIn(g, j) = NamesIn(f, j)
      BY <1>1, <2>6 DEF Less
    <2>10. Counted(g)
      <3>1. Cardinality(NamesIn(g, i)) = g.links[i]
        BY <1>1, <1>3, <2>4, <2>6 DEF Less
      <3>2. QED
        BY <2>3, <2>4, <2>8, <2>9, <3>1 DEF Sound, Counted
    <2>11. Hung(g)
      <3>1. \A j \in Inodes : g.kind[j] = "dir" /\ j # Root => j # i /\ NamesIn(g, j) = NamesIn(f, j)
        BY <2>3, <2>9
      <3>2. \A j \in Inodes : \A e : NamesIn(g, j) = {e} => e \in g.ent
        BY DEF NamesIn
      <3>3. QED
        BY <2>3, <3>1, <3>2 DEF Sound, Hung
    <2>12. QED
      BY <2>3, <2>6, <2>7, <2>10, <2>11 DEF Sound, Less, g
  <1>5. CASE ~(f.links[i] > 1)
    <2>1. g = Freed(u, i)
      BY <1>5 DEF RemovedFile, u
    <2> HIDE DEF g
    <2>2. /\ g \in FsType /\ g.kind = [f.kind EXCEPT ![i] = "free"] /\ g.ent = f.ent \ {x}
          /\ g.up = f.up /\ g.links = [f.links EXCEPT ![i] = 0]
      BY <1>2, <2>1, FreedIs
    <2>3. /\ g.kind[i] = "free"
          /\ \A j \in Inodes \ {i} : g.kind[j] = f.kind[j] /\ g.links[j] = f.links[j]
      BY <2>2, Fields
    <2>4. \A e \in f.ent : e[1] \in Inodes /\ e[3] \in Inodes
      BY Fields
    <2>5. SameDirs(f, g, g.ent)
      BY <2>2, <2>3, <2>4 DEF SameDirs
    <2>6. Less(f, g, x)
      BY <1>1, <1>3, <2>2, <2>5, OneLess
    <2>7. NamesIn(g, i) = {}
      <3>1. f.links[i] \in 0 .. Word - 1
        BY Fields
      <3>2. Cardinality(NamesIn(g, i)) = f.links[i] - 1
        BY <1>1, <1>3, <2>6 DEF Less
      <3>3. IsFiniteSet(NamesIn(g, i)) /\ Cardinality(NamesIn(g, i)) \in Nat
        BY <2>6, Finite DEF Less
      <3>4. Cardinality(NamesIn(g, i)) = 0
        BY <1>5, <3>1, <3>2, <3>3, Width
      <3>5. QED
        BY <3>3, <3>4, FS_EmptySet
    <2>8. \A e \in g.ent : e[3] # i /\ e[1] # i
      BY <2>2, <2>7 DEF NamesIn, Sound, Leads
    <2>9. Rooted(g) /\ Unique(g) /\ Leads(g)
      BY <2>2, <2>3, <2>4, <2>8, TreeAssumption DEF Sound, Rooted, Unique, Leads
    <2>10. \A j \in Inodes : SubsIn(g, j) = SubsIn(f, j)
      BY <1>1, <2>6 DEF Less
    <2>11. \A j \in Inodes \ {i} : NamesIn(g, j) = NamesIn(f, j)
      BY <1>1, <2>6 DEF Less
    <2>12. Counted(g)
      BY <2>3, <2>10, <2>11 DEF Sound, Counted
    <2>13. Hung(g)
      <3>1. \A j \in Inodes : g.kind[j] = "dir" /\ j # Root =>
              f.kind[j] = "dir" /\ NamesIn(g, j) = NamesIn(f, j)
        BY <2>3, <2>11
      <3>2. \A j \in Inodes : \A e : NamesIn(g, j) = {e} => e \in g.ent
        BY DEF NamesIn
      <3>3. QED
        BY <2>2, <3>1, <3>2 DEF Sound, Hung
    <2>14. QED
      BY <2>2, <2>6, <2>9, <2>12, <2>13 DEF Sound, Less, g
  <1>6. QED
    BY <1>4, <1>5

(* An empty directory goes: RMDIR. *)
LEMMA RmdirSound ==
    ASSUME NEW f \in FsType, Sound(f), NEW d \in Inodes, NEW n \in Names, NEW i \in Inodes,
           <<d, n, i>> \in f.ent, f.kind[i] = "dir", i # Root, \A e \in f.ent : e[1] # i
    PROVE  Sound(RemovedDir(f, d, n, i)) /\ RemovedDir(f, d, n, i) \in FsType
  <1> DEFINE x == <<d, n, i>>
             g == RemovedDir(f, d, n, i)
             u == Unlinked(f, d, n, i)
             v == Freed(u, i)
  <1>1. x[1] = d /\ x[2] = n /\ x[3] = i /\ x \in f.ent /\ d # i
    OBVIOUS
  <1>2. u \in FsType /\ u.kind = f.kind /\ u.links = f.links /\ u.ent = f.ent \ {x} /\ u.up = f.up
    BY UnlinkedIs
  <1> HIDE DEF x, u
  <1>3. /\ v \in FsType /\ v.kind = [f.kind EXCEPT ![i] = "free"] /\ v.ent = f.ent \ {x}
        /\ v.up = f.up /\ v.links = [f.links EXCEPT ![i] = 0]
    BY <1>2, FreedIs
  <1>4. g = Lessened(v, d)
    BY DEF RemovedDir, u
  <1> HIDE DEF g, v
  <1>5. /\ g \in FsType /\ g.kind = [f.kind EXCEPT ![i] = "free"] /\ g.ent = f.ent \ {x}
        /\ g.up = f.up /\ g.links = [v.links EXCEPT ![d] = IF @ > 2 THEN @ - 1 ELSE @]
    BY <1>3, <1>4, LessenedIs
  <1>6. f.kind[d] = "dir" /\ IsFiniteSet(f.ent) /\ f.links[d] = 2 + Cardinality(SubsIn(f, d))
    BY <1>1 DEF Sound, Leads, Counted
  <1>7. NamesIn(f, i) = {x}
    <2>1. PICK e \in f.ent : NamesIn(f, i) = {e}
      BY DEF Sound, Hung
    <2>2. x \in NamesIn(f, i)
      BY <1>1 DEF NamesIn
    <2>3. QED
      BY <2>1, <2>2
  <1>8. \A e \in g.ent : e[3] # i /\ e[1] # i
    BY <1>5, <1>7 DEF NamesIn
  <1>9. /\ g.kind[i] = "free" /\ \A j \in Inodes \ {i} : g.kind[j] = f.kind[j]
        /\ \A j \in Inodes \ {i, d} : g.links[j] = f.links[j]
        /\ g.links[d] = IF f.links[d] > 2 THEN f.links[d] - 1 ELSE f.links[d]
    BY <1>1, <1>3, <1>5, Fields
  <1>10. \A e \in f.ent : e[1] \in Inodes /\ e[3] \in Inodes
    BY Fields
  <1>11. SameDirs(f, g, g.ent)
    BY <1>5, <1>8, <1>9, <1>10 DEF SameDirs
  <1>12. Less(f, g, x)
    BY <1>1, <1>5, <1>6, <1>11, OneLess
  <1>13. Rooted(g) /\ Unique(g) /\ Leads(g)
    BY <1>5, <1>8, <1>9, <1>10, TreeAssumption DEF Sound, Rooted, Unique, Leads
  <1>14. \A j \in Inodes \ {i} : NamesIn(g, j) = NamesIn(f, j)
    BY <1>1, <1>12 DEF Less
  <1>15. \A j \in Inodes \ {d} : SubsIn(g, j) = SubsIn(f, j)
    BY <1>1, <1>12 DEF Less
  <1>16. g.links[d] = 2 + Cardinality(SubsIn(g, d))
    <2>1. Cardinality(SubsIn(g, d)) = Cardinality(SubsIn(f, d)) - 1
      BY <1>1, <1>12 DEF Less
    <2>2. Cardinality(SubsIn(f, d)) \in Nat /\ Cardinality(SubsIn(g, d)) \in Nat
      BY <1>6, <1>12, Finite DEF Less
    <2>3. QED
      BY <1>6, <1>9, <2>1, <2>2
  <1>17. Counted(g)
    <2>1. ASSUME NEW j \in Inodes, j # i, j # d
          PROVE  /\ g.kind[j] = "file" => Cardinality(NamesIn(g, j)) = g.links[j]
                 /\ g.kind[j] = "dir"  => g.links[j] = 2 + Cardinality(SubsIn(g, j))
      BY <2>1, <1>9, <1>14, <1>15 DEF Sound, Counted
    <2>2. QED
      BY <1>1, <1>6, <1>9, <1>16, <2>1 DEF Counted
  <1>18. Hung(g)
    <2>1. \A j \in Inodes : g.kind[j] = "dir" /\ j # Root =>
            f.kind[j] = "dir" /\ NamesIn(g, j) = NamesIn(f, j)
      BY <1>9, <1>14
    <2>2. \A j \in Inodes : \A e : NamesIn(g, j) = {e} => e \in g.ent
      BY DEF NamesIn
    <2>3. QED
      BY <1>5, <2>1, <2>2 DEF Sound, Hung
  <1>19. QED
    BY <1>5, <1>12, <1>13, <1>17, <1>18 DEF Sound, Less, g

Alike(f, g) == g \in FsType /\ g.kind = f.kind /\ g.ent = f.ent

(* A directory under another parent. *)
LEMMA ReparentedIs ==
    ASSUME NEW f \in FsType, NEW i \in Inodes, NEW fd \in Inodes, NEW td \in Inodes
    PROVE  LET g == Reparented(f, i, fd, td)
           IN /\ Alike(f, g)
              /\ (f.kind[i] # "dir" \/ fd = td) => g = f
              /\ (f.kind[i] = "dir" /\ fd # td) =>
                   /\ g.up = [f.up EXCEPT ![i] = td]
                   /\ \A j \in Inodes \ {fd, td} : g.links[j] = f.links[j]
                   /\ f.links[fd] > 2 => g.links[fd] = f.links[fd] - 1
                   /\ (f.links[td] >= 2 /\ f.links[td] < DirMax) => g.links[td] = f.links[td] + 1
  <1> DEFINE g == Reparented(f, i, fd, td)
             v == Lessened(f, fd)
             l == IF f.links[td] >= 2 /\ f.links[td] < DirMax THEN f.links[td] + 1 ELSE f.links[td]
  <1>1. CASE f.kind[i] # "dir" \/ fd = td
    BY <1>1 DEF Reparented, Alike
  <1>2. CASE f.kind[i] = "dir" /\ fd # td
    <2>1. /\ v \in FsType /\ v.kind = f.kind /\ v.ent = f.ent /\ v.up = f.up
          /\ v.links = [f.links EXCEPT ![fd] = IF @ > 2 THEN @ - 1 ELSE @]
      BY LessenedIs
    <2>2. f.links \in [Inodes -> 0 .. Word - 1] /\ f.links[td] \in 0 .. Word - 1
      BY Fields
    <2>3. /\ v.links[td] = f.links[td] /\ \A j \in Inodes \ {fd} : v.links[j] = f.links[j]
          /\ f.links[fd] > 2 => v.links[fd] = f.links[fd] - 1
      BY <1>2, <2>1, <2>2
    <2>4. l \in 0 .. Word - 1
      BY <2>2, Width
    <2>5. g = [v EXCEPT !.up[i] = td, !.links[td] = l]
      BY <1>2, <2>3 DEF Reparented
    <2> HIDE DEF v, l, g
    <2>6. /\ g \in FsType /\ g.kind = v.kind /\ g.ent = v.ent
          /\ g.up = [v.up EXCEPT ![i] = td] /\ g.links = [v.links EXCEPT ![td] = l]
      BY <2>1, <2>4, <2>5 DEF FsType
    <2>7. v.links \in [Inodes -> 0 .. Word - 1]
      BY <2>1, Fields
    <2>8. g.links[td] = l /\ \A j \in Inodes \ {td} : g.links[j] = v.links[j]
      BY <2>6, <2>7
    <2>9. (f.links[td] >= 2 /\ f.links[td] < DirMax) => g.links[td] = f.links[td] + 1
      BY <2>8 DEF l
    <2>10. QED
      BY <1>2, <2>1, <2>3, <2>6, <2>8, <2>9 DEF g, Alike
  <1>3. f.kind[i] \in {"free", "file", "dir"}
    BY Fields
  <1>4. QED
    BY <1>1, <1>2

(* No kind and no entry changes with it. *)
LEMMA ReparentedAlike ==
    ASSUME NEW f \in FsType, NEW i \in Inodes, NEW fd \in Inodes, NEW td \in Inodes
    PROVE  Alike(f, Reparented(f, i, fd, td))
  BY ReparentedIs

(* The last part of RENAME: one entry more, one less, and the directory     *)
(* that moved is mended.                                                    *)
LEMMA MoveSound ==
    ASSUME NEW f \in FsType, Sound(f), NEW i \in Inodes,
           NEW fd \in Inodes, NEW fn \in Names, <<fd, fn, i>> \in f.ent,
           NEW td \in Inodes, NEW tn \in Names, f.kind[td] = "dir",
           Vacant(f, td, tn),
           NEW b \in FsType, b.kind = f.kind, b.links = f.links, b.up = f.up,
           b.ent = f.ent \cup {<<td, tn, i>>},
           NEW m \in FsType, m.kind = f.kind, m.links = f.links, m.up = f.up,
           m.ent = b.ent \ {<<fd, fn, i>>},
           ~(f.kind[i] = "dir" /\ fd # td /\ f.links[td] >= DirMax)
    PROVE  Sound(Reparented(m, i, fd, td))
  <1> USE DEF Vacant
  <1> DEFINE x == <<td, tn, i>>
             y == <<fd, fn, i>>
             g == Reparented(m, i, fd, td)
  <1>1. /\ x[1] = td /\ x[2] = tn /\ x[3] = i /\ x \notin f.ent /\ b.ent = f.ent \cup {x}
        /\ y[1] = fd /\ y[2] = fn /\ y[3] = i /\ y \in f.ent /\ m.ent = b.ent \ {y} /\ x # y
    OBVIOUS
  <1> HIDE DEF x, y
  <1>2. /\ IsFiniteSet(f.ent) /\ f.kind[fd] = "dir" /\ f.kind[i] # "free" /\ i # Root
        /\ f.links[fd] = 2 + Cardinality(SubsIn(f, fd))
        /\ f.links[td] = 2 + Cardinality(SubsIn(f, td))
    BY <1>1 DEF Sound, Leads, Rooted, Counted
  <1>3. More(f, b, x)
    <2>1. SameDirs(f, b, f.ent)
      BY DEF SameDirs
    <2>2. QED
      BY <1>1, <1>2, <2>1, OneMore
  <1>4. Less(b, m, y)
    <2>1. SameDirs(b, m, m.ent) /\ y \in b.ent /\ IsFiniteSet(b.ent)
      BY <1>1, <1>3 DEF SameDirs, More
    <2>2. QED
      BY <1>1, <2>1, OneLess
  <1>5. /\ g \in FsType /\ g.kind = f.kind /\ g.ent = m.ent
        /\ (f.kind[i] # "dir" \/ fd = td) => g = m
        /\ (f.kind[i] = "dir" /\ fd # td) =>
             /\ g.up = [f.up EXCEPT ![i] = td]
             /\ \A j \in Inodes \ {fd, td} : g.links[j] = f.links[j]
             /\ f.links[fd] > 2 => g.links[fd] = f.links[fd] - 1
             /\ (f.links[td] >= 2 /\ f.links[td] < DirMax) => g.links[td] = f.links[td] + 1
    BY ReparentedIs DEF Alike
  <1> HIDE DEF g
  <1>6. /\ IsFiniteSet(g.ent)
        /\ \A j \in Inodes : NamesIn(g, j) = NamesIn(m, j) /\ SubsIn(g, j) = SubsIn(m, j)
    BY <1>4, <1>5 DEF NamesIn, SubsIn, Less
  <1>7. \A j \in Inodes \ {i} : NamesIn(g, j) = NamesIn(f, j)
    BY <1>1, <1>3, <1>4, <1>6 DEF More, Less
  <1>8. /\ NamesIn(g, i) = (NamesIn(f, i) \cup {x}) \ {y}
        /\ Cardinality(NamesIn(g, i)) = Cardinality(NamesIn(f, i))
    <2>1. /\ NamesIn(b, i) = NamesIn(f, i) \cup {x}
          /\ Cardinality(NamesIn(b, i)) = Cardinality(NamesIn(f, i)) + 1
      BY <1>1, <1>3 DEF More
    <2>2. /\ NamesIn(g, i) = NamesIn(b, i) \ {y}
          /\ Cardinality(NamesIn(g, i)) = Cardinality(NamesIn(b, i)) - 1
      BY <1>1, <1>4, <1>6 DEF Less
    <2>3. Cardinality(NamesIn(f, i)) \in Nat
      BY <1>2, Finite
    <2>4. QED
      BY <2>1, <2>2, <2>3
  <1>9. \A j \in Inodes : IsFiniteSet(f.ent) /\ Cardinality(NamesIn(f, j)) \in Nat
                          /\ Cardinality(SubsIn(f, j)) \in Nat /\ Cardinality(SubsIn(g, j)) \in Nat
    BY <1>2, <1>6, Finite
  <1>10. Rooted(g) /\ Unique(g) /\ Leads(g)
    BY <1>1, <1>2, <1>5 DEF Sound, Rooted, Unique, Leads
  <1>11. CASE f.kind[i] # "dir"
    <2>1. g.links = f.links /\ g.up = f.up
      BY <1>5, <1>11
    <2>2. \A j \in Inodes : SubsIn(g, j) = SubsIn(f, j)
      BY <1>1, <1>3, <1>4, <1>6, <1>11 DEF More, Less
    <2>3. \A j \in Inodes : Cardinality(NamesIn(g, j)) = Cardinality(NamesIn(f, j))
      BY <1>7, <1>8, <1>9
    <2>4. Counted(g)
      BY <1>5, <2>1, <2>2, <2>3 DEF Sound, Counted
    <2>5. Hung(g)
      <3>1. \A j \in Inodes : g.kind[j] = "dir" => NamesIn(g, j) = NamesIn(f, j)
        BY <1>5, <1>7, <1>11
      <3>2. \A j \in Inodes : \A e : NamesIn(g, j) = {e} => e \in g.ent
        BY DEF NamesIn
      <3>3. QED
        BY <1>5, <2>1, <3>1, <3>2 DEF Sound, Hung
    <2>6. QED
      BY <1>6, <1>10, <2>4, <2>5 DEF Sound, g
  <1>12. CASE f.kind[i] = "dir"
    <2>1. NamesIn(g, i) = {x} /\ f.up[i] = fd
      <3>1. PICK e \in f.ent : NamesIn(f, i) = {e} /\ f.up[i] = e[1]
        BY <1>2, <1>12 DEF Sound, Hung
      <3>2. y \in NamesIn(f, i)
        BY <1>1 DEF NamesIn
      <3>3. QED
        BY <1>1, <1>8, <3>1, <3>2
    <2>2. g.up[i] = td /\ \A j \in Inodes \ {i} : g.up[j] = f.up[j]
      <3>1. f.up \in [Inodes -> Inodes]
        BY Fields
      <3>2. QED
        BY <1>5, <1>12, <2>1, <3>1
    <2>3. Hung(g)
      <3>1. x \in g.ent
        BY <2>1 DEF NamesIn
      <3>2. \A j \in Inodes : \A e : NamesIn(g, j) = {e} => e \in g.ent
        BY DEF NamesIn
      <3>3. ASSUME NEW j \in Inodes, g.kind[j] = "dir", j # Root, j # i
            PROVE  \E e \in g.ent : NamesIn(g, j) = {e} /\ g.up[j] = e[1]
        <4>1. PICK e \in f.ent : NamesIn(f, j) = {e} /\ f.up[j] = e[1]
          BY <1>5, <3>3 DEF Sound, Hung
        <4>2. QED
          BY <1>7, <2>2, <3>2, <3>3, <4>1
      <3>4. QED
        BY <1>1, <2>1, <2>2, <3>1, <3>3 DEF Hung
    <2>4. Counted(g)
      <3>1. \A j \in Inodes : g.kind[j] = "file" => j # i /\ j # fd /\ j # td
        BY <1>2, <1>5, <1>12
      <3>2. \A j \in Inodes \ {fd, td} : SubsIn(g, j) = SubsIn(f, j) /\ g.links[j] = f.links[j]
        BY <1>1, <1>3, <1>4, <1>5, <1>6, <1>12 DEF More, Less
      <3>3. fd = td => /\ g.links[td] = f.links[td]
                       /\ Cardinality(SubsIn(g, td)) = Cardinality(SubsIn(f, td))
        <4>1. Cardinality(SubsIn(b, td)) = Cardinality(SubsIn(f, td)) + 1
          BY <1>1, <1>3, <1>12 DEF More
        <4>2. Cardinality(SubsIn(g, fd)) = Cardinality(SubsIn(b, fd)) - 1
          BY <1>1, <1>4, <1>6, <1>12 DEF Less
        <4>3. QED
          BY <1>5, <1>9, <4>1, <4>2
      <3>4. fd # td => /\ Cardinality(SubsIn(g, td)) = Cardinality(SubsIn(f, td)) + 1
                       /\ Cardinality(SubsIn(g, fd)) = Cardinality(SubsIn(f, fd)) - 1
        BY <1>1, <1>3, <1>4, <1>6, <1>12 DEF More, Less
      <3>5. g.links[td] = 2 + Cardinality(SubsIn(g, td))
        <4>1. CASE fd = td
          BY <1>2, <1>9, <3>3, <4>1
        <4>2. CASE fd # td
          <5>1. f.links[td] >= 2 /\ f.links[td] < DirMax
            BY <1>2, <1>9, <1>12, <4>2, Width
          <5>2. g.links[td] = f.links[td] + 1
            BY <1>5, <1>12, <4>2, <5>1
          <5>3. QED
            BY <1>2, <1>9, <3>4, <4>2, <5>2
        <4>3. QED
          BY <4>1, <4>2
      <3>6. fd # td => g.links[fd] = 2 + Cardinality(SubsIn(g, fd))
        <4>1. SUFFICES ASSUME fd # td PROVE g.links[fd] = 2 + Cardinality(SubsIn(g, fd))
          OBVIOUS
        <4>2. f.links[fd] > 2
          BY <1>2, <1>9, <3>4, <4>1
        <4>3. g.links[fd] = f.links[fd] - 1
          BY <1>5, <1>12, <4>1, <4>2
        <4>4. QED
          BY <1>2, <1>9, <3>4, <4>1, <4>3
      <3>7. ASSUME NEW j \in Inodes
            PROVE  /\ g.kind[j] = "file" => Cardinality(NamesIn(g, j)) = g.links[j]
                   /\ g.kind[j] = "dir"  => g.links[j] = 2 + Cardinality(SubsIn(g, j))
        <4>1. CASE j = fd \/ j = td
          BY <3>1, <3>5, <3>6, <4>1
        <4>2. CASE j # fd /\ j # td
          BY <1>5, <1>7, <3>1, <3>2, <4>2 DEF Sound, Counted
        <4>3. QED
          BY <4>1, <4>2
      <3>8. QED
        BY <3>7 DEF Counted
    <2>5. QED
      BY <1>6, <1>10, <2>3, <2>4 DEF Sound, g
  <1>13. QED
    BY <1>11, <1>12

-----------------------------------------------------------------------------
(* A tree that hangs together goes on doing so *)

Closed(f, S) == \A e \in f.ent : e[1] \in S => e[3] \in S

(* A new entry in a directory cuts nothing off. *)
LEMMA EnterJoined ==
    ASSUME NEW f \in FsType, Joined(f), NEW d \in Inodes, f.kind[d] # "free",
           NEW n \in Names, NEW i \in Inodes, NEW g \in FsType, g.ent = f.ent \cup {<<d, n, i>>},
           Others(f, g, i)
    PROVE  Joined(g)
  <1> USE DEF Others
  <1> SUFFICES ASSUME NEW j \in Inodes, g.kind[j] # "free",
                      NEW S \in SUBSET Inodes, Root \in S, Closed(g, S)
               PROVE  j \in S
    BY DEF Joined, Below, Closed
  <1>1. Closed(f, S)
    BY DEF Closed
  <1>2. \A k \in Inodes : f.kind[k] # "free" => k \in S
    BY <1>1 DEF Joined, Below, Closed
  <1>3. i \in S
    <2>1. <<d, n, i>> \in g.ent /\ <<d, n, i>>[1] = d /\ <<d, n, i>>[3] = i /\ d \in S
      BY <1>2
    <2>2. QED
      BY <2>1 DEF Closed
  <1>4. QED
    BY <1>2, <1>3

(* Nor does it to take away a name of what has no entries itself: it goes,  *)
(* or has another name.                                                     *)
LEMMA LeaveJoined ==
    ASSUME NEW f \in FsType, Sound(f), Joined(f), NEW i \in Inodes,
           NEW x, x[3] = i, \A e \in f.ent : e[1] # i,
           NEW g, g.ent = f.ent \ {x}, Others(f, g, i),
           g.kind[i] # "free" => \E e \in g.ent : e[3] = i
    PROVE  Joined(g)
  <1> USE DEF Others
  <1> SUFFICES ASSUME NEW j \in Inodes, g.kind[j] # "free",
                      NEW S \in SUBSET Inodes, Root \in S, Closed(g, S)
               PROVE  j \in S
    BY DEF Joined, Below, Closed
  <1>1. Closed(f, S \cup {i})
    BY DEF Closed
  <1>2. \A k \in Inodes \ {i} : f.kind[k] # "free" => k \in S
    <2>1. S \cup {i} \in SUBSET Inodes /\ Root \in S \cup {i}
      OBVIOUS
    <2>2. \A k \in Inodes : f.kind[k] # "free" => k \in S \cup {i}
      BY <1>1, <2>1 DEF Joined, Below, Closed
    <2>3. QED
      BY <2>2
  <1>3. CASE j # i
    BY <1>2, <1>3
  <1>4. CASE j = i
    <2>1. PICK e \in g.ent : e[3] = i
      BY <1>4
    <2>2. e \in f.ent /\ e[1] \in Inodes \ {i}
      BY <2>1, Fields
    <2>3. f.kind[e[1]] # "free"
      BY <2>2 DEF Sound, Leads
    <2>4. e[1] \in S
      BY <1>2, <2>2, <2>3
    <2>5. QED
      BY <1>4, <2>1, <2>4 DEF Closed
  <1>5. QED
    BY <1>3, <1>4

(* What moves, with T all that hangs below it, can be reached where it goes *)
(* as long as that is outside T.                                            *)
LEMMA MoveJoined ==
    ASSUME NEW f \in FsType, Joined(f), NEW i \in Inodes, NEW td \in Inodes,
           f.kind[td] # "free", NEW y \in f.ent, y[3] = i, NEW tn \in Names,
           NEW T \in SUBSET Inodes, Closed(f, T), i \in T, td \notin T,
           NEW g \in FsType, g.kind = f.kind, g.ent = (f.ent \cup {<<td, tn, i>>}) \ {y},
           y # <<td, tn, i>>
    PROVE  Joined(g)
  <1> SUFFICES ASSUME NEW j \in Inodes, g.kind[j] # "free",
                      NEW S \in SUBSET Inodes, Root \in S, Closed(g, S)
               PROVE  j \in S
    BY DEF Joined, Below, Closed
  <1>1. Closed(f, S \cup T)
    BY DEF Closed
  <1>2. td \in S
    BY <1>1 DEF Joined, Below, Closed
  <1>3. i \in S
    <2>1. <<td, tn, i>> \in g.ent /\ <<td, tn, i>>[1] = td /\ <<td, tn, i>>[3] = i
      OBVIOUS
    <2>2. QED
      BY <1>2, <2>1 DEF Closed
  <1>4. Closed(f, S)
    BY <1>3 DEF Closed
  <1>5. QED
    BY <1>4 DEF Joined, Below, Closed

(* REMOVE and RMDIR. *)
LEMMA RemoveJoined ==
    ASSUME NEW f \in FsType, Sound(f), Joined(f), NEW d \in Inodes, NEW n \in Names,
           NEW i \in Inodes, <<d, n, i>> \in f.ent, f.kind[i] = "file"
    PROVE  Joined(RemovedFile(f, d, n, i))
  <1> DEFINE x == <<d, n, i>>
             g == RemovedFile(f, d, n, i)
             u == Unlinked(f, d, n, i)
  <1>0. x[3] = i /\ \A e \in f.ent : e[1] # i
    BY DEF Sound, Leads
  <1>1. u \in FsType /\ u.kind = f.kind /\ u.links = f.links /\ u.ent = f.ent \ {x}
    BY UnlinkedIs
  <1> HIDE DEF x
  <1>2. Sound(g) /\ g \in FsType
    BY RemoveSound
  <1>3. CASE f.links[i] > 1
    <2>0. f.links[i] \in 0 .. Word - 1
      BY Fields
    <2>1. g = [u EXCEPT !.links[i] = f.links[i] - 1]
      BY <1>1, <1>3 DEF RemovedFile
    <2>2. g.kind = f.kind /\ g.ent = f.ent \ {x} /\ g.links[i] = f.links[i] - 1
      BY <1>1, <2>1, Fields DEF FsType
    <2> HIDE DEF g, u
    <2>3. Cardinality(NamesIn(g, i)) = f.links[i] - 1
      BY <1>2, <2>2 DEF Sound, Counted
    <2>4. Cardinality(NamesIn(g, i)) # 0
      BY <1>3, <2>0, <2>3, Width
    <2>5. NamesIn(g, i) # {}
      BY <2>4, FS_EmptySet
    <2>6. \E e \in g.ent : e[3] = i
      BY <2>5 DEF NamesIn
    <2>7. Joined(g)
      <3>1. Others(f, g, i)
        BY <2>2 DEF Others
      <3>2. QED
        BY <1>0, <2>2, <2>6, <3>1, LeaveJoined
    <2>8. QED
      BY <2>7 DEF g
  <1>4. CASE ~(f.links[i] > 1)
    <2>1. g = Freed(u, i)
      BY <1>4 DEF RemovedFile
    <2> HIDE DEF g, u
    <2>2. g.kind = [f.kind EXCEPT ![i] = "free"] /\ g.ent = f.ent \ {x}
      <3>1. /\ Freed(u, i).kind = [u.kind EXCEPT ![i] = "free"] /\ Freed(u, i).ent = u.ent
        BY <1>1, FreedIs
      <3>2. QED
        BY <1>1, <2>1, <3>1
    <2>3. g.kind[i] = "free" /\ \A j \in Inodes \ {i} : g.kind[j] = f.kind[j]
      BY <2>2, Fields
    <2>4. Joined(g)
      <3>1. g.ent = f.ent \ {x} /\ (g.kind[i] # "free" => \E e \in g.ent : e[3] = i)
        BY <2>2, <2>3
      <3>2. Others(f, g, i)
        BY <2>3 DEF Others
      <3>3. QED
        BY <1>0, <3>1, <3>2, LeaveJoined
    <2>5. QED
      BY <2>4 DEF g
  <1>5. QED
    BY <1>3, <1>4

(* The empty directory goes with its name. *)
LEMMA RmdirJoined ==
    ASSUME NEW f \in FsType, Sound(f), Joined(f), NEW d \in Inodes, NEW n \in Names,
           NEW i \in Inodes, \A e \in f.ent : e[1] # i
    PROVE  Joined(RemovedDir(f, d, n, i))
  <1> DEFINE x == <<d, n, i>>
             g == RemovedDir(f, d, n, i)
             u == Unlinked(f, d, n, i)
             v == Freed(u, i)
  <1>0. x[3] = i
    OBVIOUS
  <1>1. u \in FsType /\ u.kind = f.kind /\ u.ent = f.ent \ {x}
    BY UnlinkedIs
  <1> HIDE DEF x, u
  <1>2. v \in FsType /\ v.kind = [f.kind EXCEPT ![i] = "free"] /\ v.ent = f.ent \ {x}
    <2>1. v \in FsType /\ v.kind = [u.kind EXCEPT ![i] = "free"] /\ v.ent = u.ent
      BY <1>1, FreedIs
    <2>2. QED
      BY <1>1, <2>1
  <1> HIDE DEF v
  <1>3. g = Lessened(v, d)
    BY DEF RemovedDir, u, v
  <1> HIDE DEF g
  <1>4. g.kind = [f.kind EXCEPT ![i] = "free"] /\ g.ent = f.ent \ {x}
    BY <1>2, <1>3, LessenedIs
  <1>5. g.kind[i] = "free" /\ \A j \in Inodes \ {i} : g.kind[j] = f.kind[j]
    BY <1>4, Fields
  <1>6. Joined(g)
    <2>1. g.ent = f.ent \ {x} /\ (g.kind[i] # "free" => \E e \in g.ent : e[3] = i)
      BY <1>4, <1>5
    <2>2. Others(f, g, i)
      BY <1>5 DEF Others
    <2>3. QED
      BY <1>0, <2>1, <2>2, LeaveJoined
  <1>7. QED
    BY <1>6 DEF g

-----------------------------------------------------------------------------
(* The requests *)

(* What a lookup says. *)
LEMMA LookupIs ==
    ASSUME TypeOK, NEW d \in Inodes, NEW n \in Names
    PROVE  /\ Lookup(d, n) = {} => Vacant(fs, d, n)
           /\ \A i \in Lookup(d, n) : i \in Inodes /\ <<d, n, i>> \in fs.ent
  <1> USE DEF Vacant
  <1>1. fs.ent \in SUBSET (Inodes \X Names \X Inodes)
    BY Fields DEF TypeOK
  <1>2. ASSUME Lookup(d, n) = {}, NEW e \in fs.ent, e[1] = d, e[2] = n PROVE FALSE
    <2>1. e = <<d, n, e[3]>> /\ e[3] \in Inodes
      BY <1>1, <1>2
    <2>2. QED
      BY <1>2, <2>1 DEF Lookup
  <1>3. \A i \in Lookup(d, n) : i \in Inodes /\ <<d, n, i>> \in fs.ent
    BY DEF Lookup
  <1>4. QED
    BY <1>2, <1>3

(* What is gone, and what is not. *)
LEMMA GoneIs ==
    ASSUME NEW f \in FsType, NEW d \in Inodes, NEW n \in Names, NEW i \in Inodes,
           NEW g, g = RemovedFile(f, d, n, i) \/ g = RemovedDir(f, d, n, i)
    PROVE  /\ g.ent = f.ent \ {<<d, n, i>>}
           /\ Others(f, g, i)
           /\ g \in FsType
  <1> USE DEF Others
  <1> DEFINE u == Unlinked(f, d, n, i)
             v == Freed(u, i)
  <1>1. /\ u \in FsType /\ u.kind = f.kind /\ u.ent = f.ent \ {<<d, n, i>>}
        /\ u.links = f.links
    BY UnlinkedIs
  <1> HIDE DEF u
  <1>2. v \in FsType /\ v.kind = [u.kind EXCEPT ![i] = "free"] /\ v.ent = u.ent
    BY <1>1, FreedIs
  <1>3. \A j \in Inodes \ {i} : v.kind[j] = f.kind[j]
    BY <1>1, <1>2, Fields
  <1> HIDE DEF v
  <1>4. CASE g = RemovedDir(f, d, n, i)
    <2>1. g = Lessened(v, d)
      BY <1>4 DEF RemovedDir, u, v
    <2>2. QED
      BY <1>1, <1>2, <1>3, <2>1, LessenedIs
  <1>5. CASE g = RemovedFile(f, d, n, i)
    <2>1. CASE f.links[i] > 1
      <3>1. f.links[i] \in 0 .. Word - 1
        BY Fields
      <3>2. f.links[i] - 1 \in 0 .. Word - 1
        BY <2>1, <3>1, Width
      <3>3. g = [u EXCEPT !.links[i] = f.links[i] - 1]
        BY <1>1, <1>5, <2>1 DEF RemovedFile, u
      <3>4. g.kind = u.kind /\ g.ent = u.ent /\ g \in FsType
        BY <1>1, <3>2, <3>3 DEF FsType
      <3>5. QED
        BY <1>1, <3>4
    <2>2. CASE ~(f.links[i] > 1)
      <3>1. g = v
        BY <1>5, <2>2 DEF RemovedFile, u, v
      <3>2. QED
        BY <1>1, <1>2, <1>3, <3>1
    <2>3. QED
      BY <2>1, <2>2
  <1>6. QED
    BY <1>4, <1>5

(* What a step leaves of a volume that was sound. *)
Kept == /\ fs' \in FsType
        /\ ~damaged' => Sound(fs') /\ (~looped' => Joined(fs'))

(* A free inode becomes a file with a name: CREATE and SYMLINK. *)
LEMMA NewFile ==
    ASSUME NEW f \in FsType, Sound(f), NEW d \in Inodes, f.kind[d] = "dir", NEW n \in Names,
           Vacant(f, d, n), NEW i \in Inodes, f.kind[i] = "free"
    PROVE  LET g == Entered([f EXCEPT !.kind[i] = "file", !.links[i] = 1], d, n, i)
           IN  g \in FsType /\ Sound(g) /\ (Joined(f) => Joined(g))
  <1> DEFINE new == [f EXCEPT !.kind[i] = "file", !.links[i] = 1]
             g == Entered(new, d, n, i)
  <1>1. /\ new \in FsType /\ new.kind = [f.kind EXCEPT ![i] = "file"]
        /\ new.links = [f.links EXCEPT ![i] = 1] /\ new.ent = f.ent /\ new.up = f.up
    BY NewFileIs
  <1> HIDE DEF new
  <1>3. /\ g \in FsType /\ g.kind = new.kind /\ g.links = new.links
        /\ g.ent = new.ent \cup {<<d, n, i>>} /\ g.up = new.up
    BY <1>1, EnteredIs
  <1> HIDE DEF g
  <1>4. /\ g.kind = [f.kind EXCEPT ![i] = "file"] /\ g.links = [f.links EXCEPT ![i] = 1]
        /\ g.ent = f.ent \cup {<<d, n, i>>} /\ g.up = f.up
    BY <1>1, <1>3
  <1>5. Sound(g)
    BY <1>3, <1>4, FileSound
  <1>6. Others(f, g, i) /\ f.kind[d] # "free"
    BY <1>4, Fields DEF Others
  <1>7. Joined(f) => Joined(g)
    BY <1>3, <1>4, <1>6, EnterJoined
  <1>8. QED
    BY <1>3, <1>5, <1>7 DEF g, new

(* CREATE. *)
LEMMA CreateKeeps ==
    ASSUME IInv, ~damaged, NEW d \in Inodes, NEW n \in Names, Create(d, n)
    PROVE  Kept
  <1>0. fs \in FsType /\ Sound(fs) /\ (~looped => Joined(fs)) /\ TypeOK /\ fs.kind[d] = "dir"
        /\ looped' = looped
    BY DEF IInv, TypeOK, Create, ValidDir
  <1>1. PICK i \in Inodes :
          /\ fs.kind[i] = "free"
          /\ LET new == [fs EXCEPT !.kind[i] = "file", !.links[i] = 1]
             IN  \/ Lookup(d, n) = {} /\ fs' = Entered(new, d, n, i)
                 \/ fs' = Freed(new, i)
                 \/ fs' = Entered(new, d, n, i) /\ damaged' = TRUE
    BY DEF Create
  <1> DEFINE new == [fs EXCEPT !.kind[i] = "file", !.links[i] = 1]
  <1>2. /\ new \in FsType /\ new.kind = [fs.kind EXCEPT ![i] = "file"]
        /\ new.links = [fs.links EXCEPT ![i] = 1] /\ new.ent = fs.ent /\ new.up = fs.up
    BY <1>0, NewFileIs
  <1>3. CASE Lookup(d, n) = {} /\ fs' = Entered(new, d, n, i)
    <2>1. Vacant(fs, d, n)
      BY <1>0, <1>3, LookupIs
    <2>2. fs' \in FsType /\ Sound(fs') /\ (Joined(fs) => Joined(fs'))
      BY <1>0, <1>1, <1>3, <2>1, NewFile
    <2>3. QED
      BY <1>0, <2>2 DEF Kept
  <1> HIDE DEF new
  <1>4. CASE fs' = Freed(new, i)
    <2>1. /\ fs' \in FsType /\ fs'.kind = [new.kind EXCEPT ![i] = "free"]
          /\ fs'.links = [new.links EXCEPT ![i] = 0] /\ fs'.ent = new.ent /\ fs'.up = new.up
      BY <1>2, <1>4, FreedIs
    <2>2. /\ fs.kind \in [Inodes -> {"free", "file", "dir"}]
          /\ fs.links \in [Inodes -> 0 .. Word - 1]
      BY <1>0, Fields
    <2>3. fs'.kind = fs.kind /\ \A j \in Inodes \ {i} : fs'.links[j] = fs.links[j]
      BY <1>1, <1>2, <2>1, <2>2
    <2>4. fs'.ent = fs.ent /\ fs'.up = fs.up
      BY <1>2, <2>1
    <2>5. Sound(fs')
      BY <1>0, <1>1, <2>1, <2>3, <2>4, FreedSound
    <2>6. Joined(fs) => Joined(fs')
      BY <2>3, <2>4 DEF Joined, Below
    <2>7. QED
      BY <1>0, <2>1, <2>5, <2>6 DEF Kept
  <1>5. CASE fs' = Entered(new, d, n, i) /\ damaged' = TRUE
    BY <1>2, <1>5, EnteredIs DEF Kept
  <1>6. QED
    BY <1>1, <1>3, <1>4, <1>5 DEF new

(* SYMLINK. *)
LEMMA SymlinkKeeps ==
    ASSUME IInv, ~damaged, NEW d \in Inodes, NEW n \in Names, Symlink(d, n)
    PROVE  Kept
  <1>0. fs \in FsType /\ Sound(fs) /\ (~looped => Joined(fs)) /\ TypeOK /\ fs.kind[d] = "dir"
        /\ looped' = looped /\ Lookup(d, n) = {}
    BY DEF IInv, TypeOK, Symlink, ValidDir
  <1>1. PICK i \in Inodes :
          /\ fs.kind[i] = "free"
          /\ fs' = Entered([fs EXCEPT !.kind[i] = "file", !.links[i] = 1], d, n, i)
    BY DEF Symlink
  <1>2. Vacant(fs, d, n)
    BY <1>0, LookupIs
  <1>3. fs' \in FsType /\ Sound(fs') /\ (Joined(fs) => Joined(fs'))
    BY <1>0, <1>1, <1>2, NewFile
  <1>4. QED
    BY <1>0, <1>3 DEF Kept

(* MKDIR. *)
LEMMA MkdirKeeps ==
    ASSUME IInv, ~damaged, NEW d \in Inodes, NEW n \in Names, Mkdir(d, n)
    PROVE  Kept
  <1>0. /\ fs \in FsType /\ Sound(fs) /\ (~looped => Joined(fs)) /\ TypeOK /\ fs.kind[d] = "dir"
        /\ looped' = looped /\ Lookup(d, n) = {} /\ (~damaged' => fs.links[d] + 1 # Word)
    BY DEF IInv, TypeOK, Mkdir, ValidDir
  <1>1. PICK i \in Inodes :
          /\ fs.kind[i] = "free"
          /\ fs' = Entered(NewDir(fs, d, i), d, n, i)
    BY DEF Mkdir, NewDir
  <1> DEFINE new == NewDir(fs, d, i)
  <1>2. /\ new \in FsType /\ new.kind = [fs.kind EXCEPT ![i] = "dir"]
        /\ new.ent = fs.ent /\ new.up = [fs.up EXCEPT ![i] = d]
        /\ fs.links[d] + 1 # Word => new.links = [fs.links EXCEPT ![i] = 2, ![d] = fs.links[d] + 1]
    BY <1>0, NewDirIs
  <1>3. fs' = Entered(new, d, n, i)
    BY <1>1
  <1> HIDE DEF new
  <1>4. /\ fs' \in FsType /\ fs'.kind = new.kind /\ fs'.links = new.links
        /\ fs'.ent = new.ent \cup {<<d, n, i>>} /\ fs'.up = new.up
    BY <1>2, <1>3, EnteredIs
  <1>5. /\ fs'.kind = [fs.kind EXCEPT ![i] = "dir"] /\ fs'.ent = fs.ent \cup {<<d, n, i>>}
        /\ fs'.up = [fs.up EXCEPT ![i] = d]
        /\ ~damaged' => fs'.links = [fs.links EXCEPT ![i] = 2, ![d] = fs.links[d] + 1]
    BY <1>0, <1>2, <1>4
  <1>6. Vacant(fs, d, n)
    BY <1>0, LookupIs
  <1>7. ASSUME ~damaged' PROVE Sound(fs')
    <2>1. fs'.links = [fs.links EXCEPT ![i] = 2, ![d] = fs.links[d] + 1]
      BY <1>5, <1>7
    <2>2. QED
      BY <1>0, <1>1, <1>4, <1>5, <1>6, <2>1, DirSound
  <1>8. Others(fs, fs', i) /\ fs.kind[d] # "free"
    BY <1>0, <1>5, Fields DEF Others
  <1>9. Joined(fs) => Joined(fs')
    BY <1>0, <1>4, <1>5, <1>8, EnterJoined
  <1>10. QED
    BY <1>0, <1>4, <1>7, <1>9 DEF Kept

(* LINK. *)
LEMMA LinkKeeps ==
    ASSUME IInv, ~damaged, NEW i \in Inodes, NEW d \in Inodes, NEW n \in Names, Link(i, d, n)
    PROVE  Kept
  <1>0. /\ fs \in FsType /\ Sound(fs) /\ (~looped => Joined(fs)) /\ TypeOK /\ fs.kind[d] = "dir"
        /\ looped' = looped /\ fs.kind[i] = "file"
    BY Fields DEF IInv, TypeOK, Link, ValidDir, Valid
  <1> DEFINE new == [fs EXCEPT !.links[i] = (@ + 1) % Word]
  <1>1. \/ /\ Lookup(d, n) = {} /\ fs' = Entered(new, d, n, i)
           /\ ~damaged' => fs.links[i] + 1 # Word
        \/ (fs' = Entered(fs, d, n, i) \/ fs' = Entered(new, d, n, i)) /\ damaged' = TRUE
    BY DEF Link
  <1>2. /\ new \in FsType /\ new.kind = fs.kind /\ new.ent = fs.ent /\ new.up = fs.up
        /\ fs.links[i] + 1 # Word => new.links = [fs.links EXCEPT ![i] = @ + 1]
    BY <1>0, MoreIs
  <1> HIDE DEF new
  <1>3. CASE /\ Lookup(d, n) = {} /\ fs' = Entered(new, d, n, i)
             /\ ~damaged' => fs.links[i] + 1 # Word
    <2>1. /\ fs' \in FsType /\ fs'.kind = new.kind /\ fs'.links = new.links
          /\ fs'.ent = new.ent \cup {<<d, n, i>>} /\ fs'.up = new.up
      BY <1>2, <1>3, EnteredIs
    <2>2. /\ fs'.kind = fs.kind /\ fs'.ent = fs.ent \cup {<<d, n, i>>} /\ fs'.up = fs.up
          /\ ~damaged' => fs'.links = [fs.links EXCEPT ![i] = @ + 1]
      BY <1>2, <1>3, <2>1
    <2>3. Vacant(fs, d, n)
      BY <1>0, <1>3, LookupIs
    <2>4. ~damaged' => Sound(fs')
      BY <1>0, <2>1, <2>2, <2>3, LinkSound
    <2>5. Joined(fs) => Joined(fs')
      <3>1. Others(fs, fs', i) /\ fs.kind[d] # "free"
        BY <1>0, <2>2 DEF Others
      <3>2. QED
        BY <1>0, <2>1, <2>2, <3>1, EnterJoined
    <2>6. QED
      BY <1>0, <2>1, <2>4, <2>5 DEF Kept
  <1>4. CASE (fs' = Entered(fs, d, n, i) \/ fs' = Entered(new, d, n, i)) /\ damaged' = TRUE
    BY <1>0, <1>2, <1>4, EnteredIs DEF Kept
  <1>5. QED
    BY <1>1, <1>3, <1>4

(* REMOVE. *)
LEMMA RemoveKeeps ==
    ASSUME IInv, ~damaged, NEW d \in Inodes, NEW n \in Names, Remove(d, n)
    PROVE  Kept
  <1>0. /\ fs \in FsType /\ Sound(fs) /\ (~looped => Joined(fs)) /\ TypeOK /\ looped' = looped
    BY DEF IInv, TypeOK, Remove
  <1>1. PICK i \in Lookup(d, n) :
          /\ fs.kind[i] \notin {"free", "dir"}
          /\ \/ fs' = RemovedFile(fs, d, n, i)
             \/ fs' = Unlinked(fs, d, n, i) /\ damaged' = TRUE
    BY DEF Remove, Valid
  <1>2. i \in Inodes /\ <<d, n, i>> \in fs.ent
    BY <1>0, LookupIs
  <1>3. fs.kind[i] = "file"
    BY <1>0, <1>1, <1>2, Fields
  <1>4. CASE fs' = RemovedFile(fs, d, n, i)
    <2>1. Sound(fs') /\ fs' \in FsType
      BY <1>0, <1>2, <1>3, <1>4, RemoveSound
    <2>2. Joined(fs) => Joined(fs')
      BY <1>0, <1>2, <1>3, <1>4, RemoveJoined
    <2>3. QED
      BY <1>0, <2>1, <2>2 DEF Kept
  <1>5. CASE fs' = Unlinked(fs, d, n, i) /\ damaged' = TRUE
    BY <1>0, <1>5, UnlinkedIs DEF Kept
  <1>6. QED
    BY <1>1, <1>4, <1>5

(* RMDIR. *)
LEMMA RmdirKeeps ==
    ASSUME IInv, ~damaged, NEW d \in Inodes, NEW n \in Names, Rmdir(d, n)
    PROVE  Kept
  <1>0. /\ fs \in FsType /\ Sound(fs) /\ (~looped => Joined(fs)) /\ TypeOK /\ looped' = looped
    BY DEF IInv, TypeOK, Rmdir
  <1>1. PICK i \in Lookup(d, n) :
          /\ i # Root /\ fs.kind[i] = "dir" /\ Empty(i)
          /\ \/ fs' = RemovedDir(fs, d, n, i)
             \/ fs' = Freed(Unlinked(fs, d, n, i), i) /\ damaged' = TRUE
    BY DEF Rmdir
  <1>2. i \in Inodes /\ <<d, n, i>> \in fs.ent /\ \A e \in fs.ent : e[1] # i
    BY <1>0, <1>1, LookupIs DEF Empty
  <1>3. CASE fs' = RemovedDir(fs, d, n, i)
    <2>1. Sound(fs') /\ fs' \in FsType
      BY <1>0, <1>1, <1>2, <1>3, RmdirSound
    <2>2. Joined(fs) => Joined(fs')
      BY <1>0, <1>2, <1>3, RmdirJoined
    <2>3. QED
      BY <1>0, <2>1, <2>2 DEF Kept
  <1>4. CASE fs' = Freed(Unlinked(fs, d, n, i), i) /\ damaged' = TRUE
    <2>1. Unlinked(fs, d, n, i) \in FsType
      BY <1>0, UnlinkedIs
    <2>2. fs' \in FsType
      BY <1>2, <1>4, <2>1, FreedIs
    <2>3. QED
      BY <1>4, <2>2 DEF Kept
  <1>5. QED
    BY <1>1, <1>3, <1>4

(* RENAME makes room: afterwards the name is free, and what is to be moved  *)
(* is where it was.                                                         *)
LEMMA ClearedIs ==
    ASSUME TypeOK, Sound(fs), NEW fd \in Inodes, NEW fn \in Names, NEW td \in Inodes,
           NEW tn \in Names, fs.kind[td] = "dir", NEW i \in Lookup(fd, fn),
           NEW c \in Cleared(i, td, tn)
    PROVE  /\ c \in FsType /\ Sound(c) /\ (Joined(fs) => Joined(c))
           /\ c.ent \subseteq fs.ent /\ <<fd, fn, i>> \in c.ent
           /\ c.kind[i] = fs.kind[i] /\ c.kind[td] = "dir" /\ Vacant(c, td, tn)
  <1>0. fs \in FsType /\ i \in Inodes /\ <<fd, fn, i>> \in fs.ent
    BY LookupIs DEF TypeOK
  <1>1. CASE Lookup(td, tn) = {}
    <2>1. c = fs
      BY <1>1 DEF Cleared
    <2>2. Vacant(fs, td, tn)
      BY <1>1, LookupIs
    <2>3. QED
      BY <1>0, <2>1, <2>2
  <1>2. CASE Lookup(td, tn) # {}
    <2>1. PICK t \in Lookup(td, tn) \ {i} :
            \/ /\ c = RemovedFile(fs, td, tn, t) /\ Valid(t) /\ fs.kind[t] # "dir"
            \/ /\ c = RemovedDir(fs, td, tn, t) /\ t # Root /\ fs.kind[t] = "dir" /\ Empty(t)
      BY <1>2 DEF Cleared
    <2>2. t \in Inodes /\ <<td, tn, t>> \in fs.ent /\ t # i
      BY LookupIs
    <2>3. /\ c.ent = fs.ent \ {<<td, tn, t>>} /\ c \in FsType
          /\ \A j \in Inodes \ {t} : c.kind[j] = fs.kind[j]
      BY <1>0, <2>1, <2>2, GoneIs DEF Others
    <2>4. t # td
      BY <2>1, <2>2 DEF Empty
    <2>5. Vacant(c, td, tn)
      BY <2>2, <2>3 DEF Vacant, Sound, Unique
    <2>6. Sound(c) /\ (Joined(fs) => Joined(c))
      <3>1. CASE c = RemovedFile(fs, td, tn, t) /\ Valid(t) /\ fs.kind[t] # "dir"
        <4>1. fs.kind[t] = "file"
          BY <1>0, <2>2, <3>1, Fields DEF Valid
        <4>2. QED
          BY <1>0, <2>2, <3>1, <4>1, RemoveSound, RemoveJoined
      <3>2. CASE c = RemovedDir(fs, td, tn, t) /\ t # Root /\ fs.kind[t] = "dir" /\ Empty(t)
        <4>1. \A e \in fs.ent : e[1] # t
          BY <3>2 DEF Empty
        <4>2. QED
          BY <1>0, <2>2, <3>2, <4>1, RmdirSound, RmdirJoined
      <3>3. QED
        BY <2>1, <3>1, <3>2
    <2>7. QED
      BY <1>0, <2>2, <2>3, <2>4, <2>5, <2>6
  <1>3. QED
    BY <1>1, <1>2

(* RENAME. *)
LEMMA RenameKeeps ==
    ASSUME IInv, ~damaged, NEW fd \in Inodes, NEW fn \in Names, NEW td \in Inodes,
           NEW tn \in Names, Rename(fd, fn, td, tn)
    PROVE  Kept
  <1>0. /\ fs \in FsType /\ Sound(fs) /\ (~looped => Joined(fs)) /\ TypeOK
        /\ fs.kind[td] = "dir"
    BY DEF IInv, TypeOK, Rename, ValidDir
  <1>i. PICK i \in Lookup(fd, fn) : \E c \in Cleared(i, td, tn) :
          LET across == fs.kind[i] = "dir" /\ fd # td
              both   == Entered(c, td, tn, i)
              moved  == Unlinked(both, fd, fn, i)
              within == looped \/ (fs.kind[i] = "dir" /\ Below(fs, i, td))
          IN  \/ /\ fs' = Reparented(moved, i, fd, td)
                 /\ damaged' = (damaged \/ (across /\ c.links[td] >= DirMax))
                 /\ looped' = within
              \/ fs' = c /\ UNCHANGED <<damaged, looped>>
              \/ fs' = both /\ damaged' = TRUE
              \/ fs' \in {moved, [moved EXCEPT !.up[i] = td]} /\ damaged' = TRUE
    BY DEF Rename
  <1>1. PICK c \in Cleared(i, td, tn) :
          LET across == fs.kind[i] = "dir" /\ fd # td
              both   == Entered(c, td, tn, i)
              moved  == Unlinked(both, fd, fn, i)
              within == looped \/ (fs.kind[i] = "dir" /\ Below(fs, i, td))
          IN  \/ /\ fs' = Reparented(moved, i, fd, td)
                 /\ damaged' = (damaged \/ (across /\ c.links[td] >= DirMax))
                 /\ looped' = within
              \/ fs' = c /\ UNCHANGED <<damaged, looped>>
              \/ fs' = both /\ damaged' = TRUE
              \/ fs' \in {moved, [moved EXCEPT !.up[i] = td]} /\ damaged' = TRUE
    BY <1>i
  <1>2. /\ c \in FsType /\ Sound(c) /\ (Joined(fs) => Joined(c))
        /\ c.ent \subseteq fs.ent /\ <<fd, fn, i>> \in c.ent
        /\ c.kind[i] = fs.kind[i] /\ c.kind[td] = "dir" /\ Vacant(c, td, tn)
    BY <1>0, ClearedIs
  <1>3. i \in Inodes /\ <<fd, fn, i>> \in fs.ent
    BY <1>0, LookupIs
  <1> DEFINE both == Entered(c, td, tn, i)
             moved == Unlinked(both, fd, fn, i)
  <1>4. /\ both \in FsType /\ both.kind = c.kind /\ both.links = c.links
        /\ both.ent = c.ent \cup {<<td, tn, i>>} /\ both.up = c.up
    <2>1. c \in FsType /\ i \in Inodes
      BY <1>2, <1>3
    <2>2. QED
      BY <2>1 DEF Entered, FsType
  <1> HIDE DEF both
  <1>5. /\ moved \in FsType /\ moved.kind = both.kind /\ moved.links = both.links
        /\ moved.ent = both.ent \ {<<fd, fn, i>>} /\ moved.up = both.up
    BY <1>4, UnlinkedIs
  <1> HIDE DEF moved
  <1>6. CASE fs' = c /\ UNCHANGED <<damaged, looped>>
    BY <1>0, <1>2, <1>6 DEF Kept
  <1>7. CASE fs' = both /\ damaged' = TRUE
    BY <1>4, <1>7 DEF Kept
  <1>8. CASE fs' \in {moved, [moved EXCEPT !.up[i] = td]} /\ damaged' = TRUE
    <2>1. fs' \in FsType
      BY <1>3, <1>5, <1>8 DEF FsType
    <2>2. QED
      BY <1>8, <2>1 DEF Kept
  <1>9. CASE /\ fs' = Reparented(moved, i, fd, td)
             /\ damaged' = (damaged \/ (fs.kind[i] = "dir" /\ fd # td /\ c.links[td] >= DirMax))
             /\ looped' = (looped \/ (fs.kind[i] = "dir" /\ Below(fs, i, td)))
    <2>1. /\ fs' \in FsType /\ fs'.kind = moved.kind /\ fs'.ent = moved.ent
      <3>1. moved \in FsType /\ i \in Inodes
        BY <1>3, <1>5
      <3>2. Alike(moved, Reparented(moved, i, fd, td))
        BY <3>1, ReparentedAlike
      <3>3. QED
        BY <1>9, <3>2 DEF Alike
    <2>2. /\ moved.kind = c.kind /\ moved.links = c.links /\ moved.up = c.up
      BY <1>4, <1>5
    <2>3. ASSUME ~damaged' PROVE Sound(fs')
      <3>1. ~(c.kind[i] = "dir" /\ fd # td /\ c.links[td] >= DirMax)
        BY <1>2, <1>9, <2>3
      <3>2. Sound(Reparented(moved, i, fd, td))
        BY <1>2, <1>3, <1>4, <1>5, <2>2, <3>1, MoveSound
      <3>3. QED
        BY <1>9, <3>2
    <2>4. ASSUME ~looped' PROVE Joined(fs')
      <3>1. /\ Joined(c) /\ (fs.kind[i] = "dir" => ~Below(fs, i, td))
        BY <1>0, <1>2, <1>9, <2>4
      <3>2. \E T \in SUBSET Inodes : Closed(c, T) /\ i \in T /\ td \notin T
        <4>1. CASE fs.kind[i] = "dir"
          <5>1. PICK T \in SUBSET Inodes :
                  i \in T /\ Closed(fs, T) /\ td \notin T
            BY <3>1, <4>1 DEF Below, Closed
          <5>2. Closed(c, T)
            BY <1>2, <5>1 DEF Closed
          <5>3. QED
            BY <5>1, <5>2
        <4>2. CASE fs.kind[i] # "dir"
          <5>1. \A e \in c.ent : e[1] # i
            BY <1>2, <4>2 DEF Sound, Leads
          <5>2. Closed(c, {i}) /\ {i} \in SUBSET Inodes /\ td # i
            BY <1>2, <1>3, <4>2, <5>1 DEF Closed
          <5>3. QED
            BY <5>2
        <4>3. QED
          BY <4>1, <4>2
      <3>3. PICK T \in SUBSET Inodes : Closed(c, T) /\ i \in T /\ td \notin T
        BY <3>2
      <3> DEFINE y == <<fd, fn, i>>
      <3>4. y[3] = i /\ y # <<td, tn, i>> /\ y \in c.ent
        BY <1>2 DEF Vacant
      <3>5. fs'.kind = c.kind /\ fs'.ent = (c.ent \cup {<<td, tn, i>>}) \ {y}
        BY <1>4, <1>5, <2>1
      <3> HIDE DEF y
      <3>6. c.kind[td] # "free"
        BY <1>2
      <3>7. QED
        BY <1>2, <1>3, <2>1, <3>1, <3>3, <3>4, <3>5, <3>6, MoveJoined
    <2>5. QED
      BY <2>1, <2>3, <2>4 DEF Kept
  <1>10. QED
    BY <1>1, <1>6, <1>7, <1>8, <1>9 DEF both, moved

(* A request counts a failure at most, and the histories stay histories. *)
LEMMA CountsKeep ==
    ASSUME IInv, NEW d \in Inodes, NEW n \in Names,
           \/ Create(d, n) \/ Symlink(d, n) \/ Mkdir(d, n) \/ Remove(d, n) \/ Rmdir(d, n)
           \/ \E i \in Inodes : Link(i, d, n)
           \/ \E td \in Inodes, tn \in Names : Rename(d, n, td, tn)
    PROVE  /\ faults' = faults \/ (faults < MaxFaults /\ faults' = faults + 1)
           /\ damaged' \in BOOLEAN /\ looped' \in BOOLEAN
  <1>0. damaged \in BOOLEAN /\ looped \in BOOLEAN
    BY DEF IInv, TypeOK
  <1>1. CASE Create(d, n)
    BY <1>0, <1>1 DEF Create, NoFault, Fault
  <1>2. CASE Symlink(d, n) \/ Mkdir(d, n)
    BY <1>0, <1>2 DEF Symlink, Mkdir
  <1>3. CASE Remove(d, n)
    BY <1>0, <1>3 DEF Remove, NoFault, Fault
  <1>4. CASE Rmdir(d, n)
    BY <1>0, <1>4 DEF Rmdir, NoFault, Fault
  <1>5. ASSUME NEW i \in Inodes, Link(i, d, n)
        PROVE  /\ faults' = faults \/ (faults < MaxFaults /\ faults' = faults + 1)
               /\ damaged' \in BOOLEAN /\ looped' \in BOOLEAN
    BY <1>0, <1>5 DEF Link, NoFault, Fault
  <1>6. ASSUME NEW td \in Inodes, NEW tn \in Names, Rename(d, n, td, tn)
        PROVE  /\ faults' = faults \/ (faults < MaxFaults /\ faults' = faults + 1)
               /\ damaged' \in BOOLEAN /\ looped' \in BOOLEAN
    <2>1. faults' = faults \/ (faults < MaxFaults /\ faults' = faults + 1)
      BY <1>6 DEF Rename, NoFault, Fault
    <2>2. /\ damaged' = damaged \/ damaged' \in BOOLEAN
          /\ looped' = looped \/ looped' \in BOOLEAN
      BY <1>6 DEF Rename
    <2>3. QED
      BY <1>0, <2>1, <2>2
  <1>7. QED
    BY <1>1, <1>2, <1>3, <1>4, <1>5, <1>6

-----------------------------------------------------------------------------
(* The theorems *)

(* Every state satisfies the invariant. *)
THEOREM Invariance == Spec => []IInv
  <1>1. Init => IInv
    <2> SUFFICES ASSUME Init PROVE IInv
      OBVIOUS
    <2>1. /\ fs.ent = {} /\ fs.kind = [i \in Inodes |-> IF i = Root THEN "dir" ELSE "free"]
          /\ fs.links = [i \in Inodes |-> IF i = Root THEN 2 ELSE 0]
          /\ fs.up = [i \in Inodes |-> Root]
      BY DEF Init
    <2>2. fs \in FsType
      <3>1. fs.links \in [Inodes -> 0 .. Word - 1]
        BY <2>1, Width
      <3>2. /\ fs.kind \in [Inodes -> {"free", "file", "dir"}] /\ fs.up \in [Inodes -> Inodes]
            /\ fs.ent \in SUBSET (Inodes \X Names \X Inodes)
        BY <2>1, TreeAssumption
      <3>3. fs = [kind |-> fs.kind, links |-> fs.links, ent |-> fs.ent, up |-> fs.up]
        BY DEF Init
      <3>4. QED
        BY <3>1, <3>2, <3>3 DEF FsType
    <2>3. faults \in 0 .. MaxFaults
      BY TreeAssumption DEF Init
    <2>4. TypeOK
      BY <2>2, <2>3 DEF Init, TypeOK
    <2>5. \A i \in Inodes : NamesIn(fs, i) = {} /\ SubsIn(fs, i) = {}
      BY <2>1 DEF NamesIn, SubsIn
    <2>6. Counted(fs)
      BY <2>1, <2>5, FS_EmptySet DEF Counted
    <2>7. Sound(fs)
      BY <2>1, <2>6, FS_EmptySet, TreeAssumption DEF Sound, Rooted, Unique, Leads, Hung
    <2>8. Joined(fs)
      BY <2>1 DEF Joined, Below
    <2>9. QED
      BY <2>4, <2>7, <2>8 DEF IInv
  <1>2. IInv /\ [Next]_vars => IInv'
    <2> SUFFICES ASSUME IInv, [Next]_vars PROVE IInv'
      OBVIOUS
    <2>1. ASSUME ~damaged, NEW d \in Inodes, NEW n \in Names,
                 \/ Create(d, n) \/ Symlink(d, n) \/ Mkdir(d, n) \/ Remove(d, n) \/ Rmdir(d, n)
                 \/ \E i \in Inodes : Link(i, d, n)
                 \/ \E td \in Inodes, tn \in Names : Rename(d, n, td, tn)
          PROVE  IInv'
      <3>1. Kept
        BY <2>1, CreateKeeps, SymlinkKeeps, MkdirKeeps, RemoveKeeps, RmdirKeeps, LinkKeeps,
           RenameKeeps
      <3>2. /\ faults' = faults \/ (faults < MaxFaults /\ faults' = faults + 1)
            /\ damaged' \in BOOLEAN /\ looped' \in BOOLEAN
        BY <2>1, CountsKeep
      <3>3. faults \in 0 .. MaxFaults /\ damaged \in BOOLEAN /\ looped \in BOOLEAN
        BY DEF IInv, TypeOK
      <3>4. faults' \in 0 .. MaxFaults
        BY <3>2, <3>3, TreeAssumption
      <3>5. QED
        BY <3>1, <3>2, <3>4 DEF IInv, TypeOK, Kept
    <2>2. CASE UNCHANGED vars
      <3>1. UNCHANGED <<fs, faults, damaged, looped>>
        BY <2>2 DEF vars
      <3>2. TypeOK'
        BY <3>1 DEF IInv, TypeOK
      <3>3. QED
        BY <3>1, <3>2 DEF IInv
    <2>3. QED
      BY <2>1, <2>2 DEF Next, Unfollowed
  <1>3. QED
    BY <1>1, <1>2, PTL DEF Spec

(* After any sequence of requests, and of failures that the code undoes or  *)
(* reports in time, the tree is what e2fsck expects, however many inodes    *)
(* and names there are and wherever the counts wrap (the ext_op_* of        *)
(* mountd_nfs.c).                                                           *)
THEOREM ConsistentAlways == Spec => []Consistent
  <1>1. IInv => Consistent
    <2> SUFFICES ASSUME IInv PROVE Consistent
      OBVIOUS
    <2>1. TypeOK
      BY DEF IInv
    <2>2. \A i : NamesOf(i) = NamesIn(fs, i) /\ SubdirsOf(i) = SubsIn(fs, i)
      BY DEF NamesOf, SubdirsOf, NamesIn, SubsIn
    <2>3. ASSUME ~damaged
          PROVE  /\ \A e, g \in fs.ent : (e[1] = g[1] /\ e[2] = g[2]) => e = g
                 /\ \A e \in fs.ent : fs.kind[e[1]] = "dir" /\ fs.kind[e[3]] # "free"
                 /\ \A i \in Inodes :
                      /\ fs.kind[i] = "file" => Cardinality(NamesOf(i)) = fs.links[i]
                      /\ fs.kind[i] = "dir"  => fs.links[i] = 2 + Cardinality(SubdirsOf(i))
                      /\ (fs.kind[i] = "dir" /\ i # Root) =>
                             \E e \in fs.ent : NamesOf(i) = {e} /\ fs.up[i] = e[1]
      <3>1. Unique(fs) /\ Leads(fs) /\ Counted(fs) /\ Hung(fs)
        BY <2>3 DEF IInv, Sound
      <3>2. \A e, g \in fs.ent : (e[1] = g[1] /\ e[2] = g[2]) => e = g
        BY <3>1 DEF Unique
      <3>3. \A e \in fs.ent : fs.kind[e[1]] = "dir" /\ fs.kind[e[3]] # "free"
        BY <3>1 DEF Leads
      <3>4. \A i \in Inodes :
              /\ fs.kind[i] = "file" => Cardinality(NamesOf(i)) = fs.links[i]
              /\ fs.kind[i] = "dir"  => fs.links[i] = 2 + Cardinality(SubdirsOf(i))
        BY <2>2, <3>1 DEF Counted
      <3>5. \A i \in Inodes : (fs.kind[i] = "dir" /\ i # Root) =>
              \E e \in fs.ent : NamesOf(i) = {e} /\ fs.up[i] = e[1]
        BY <2>2, <3>1 DEF Hung
      <3>6. QED
        BY <3>2, <3>3, <3>4, <3>5
    <2>4. QED
      BY <2>1, <2>3 DEF Consistent
  <1>2. QED
    BY <1>1, Invariance, PTL

(* Whatever is allocated is reached from the root, unless a directory was   *)
(* moved below itself or the volume is damaged (ext_op_rename).             *)
THEOREM ConnectedAlways == Spec => []Connected
  <1>1. IInv => Connected
    BY DEF IInv, Connected, Joined
  <1>2. QED
    BY <1>1, Invariance, PTL
=============================================================================
