---------------------------- MODULE StateMapping ----------------------------
(***************************************************************************)
(* Which state file each chat of a configuration has: validateStateMappings *)
(* and validateStateAlias of config.go, over a directory whose file system *)
(* may or may not tell names apart by case and normalization form.         *)
(***************************************************************************)
EXTENDS Naturals, Sequences

CONSTANTS
    Names,          \* file names
    SafeNames,      \* those that name a file of the state directory
    Folded,         \* each name's comparison key: normalized, its case folded
    Normal,         \* the canonical form of each valid chat id
    DefaultFile,    \* the state file of a canonical chat id
    Default,        \* a chat without state_file
    Files           \* the files that exist before the program runs

ASSUME MappingAssumption ==
    /\ SafeNames \subseteq Names
    /\ Folded \in [Names -> Names]
    /\ \A n \in Names : Folded[Folded[n]] = Folded[n]
    /\ \A id \in DOMAIN Normal : Normal[id] \in DOMAIN DefaultFile
    /\ \A c \in DOMAIN DefaultFile : DefaultFile[c] \in Names
    /\ Default \notin Names
    /\ Files \cap Names = {}

\* An entry of the directory; a chain of links is one link to its end.  A file
\* that the program creates is known by the name of its place.
Absent  == [kind |-> "absent"]
File(n) == [kind |-> "file", inode |-> n]
Link(n) == [kind |-> "link", to |-> n]

Entries(files) == {Absent} \cup { File(f) : f \in files } \cup { Link(n) : n \in Names }

\* The directories with these files.
FileSystems(files) == [folding : BOOLEAN, dir : [Names -> Entries(files)]]

\* The entry a name leads to; fs.folding tells whether the file system folds.
Entry(fs, n) == fs.dir[IF fs.folding THEN Folded[n] ELSE n]

Target(fs, n) ==
    LET e == Entry(fs, n) IN IF e.kind = "link" THEN Entry(fs, e.to) ELSE e

\* The place a file is created at when the name is opened.
Place(fs, n) ==
    LET m == IF Entry(fs, n).kind = "link" THEN Entry(fs, n).to ELSE n
    IN  IF fs.folding THEN Folded[m] ELSE m

Dangling(fs, n) == Entry(fs, n).kind = "link" /\ Target(fs, n) = Absent

SameFile(fs, m, n) == Target(fs, m) # Absent /\ Target(fs, m) = Target(fs, n)

\* Mistaken: names are compared as they are written.
CollideExactly(fs, m, n) == m = n \/ SameFile(fs, m, n)

Collide(fs, m, n) == Folded[m] = Folded[n] \/ SameFile(fs, m, n)

ChatOf(raw) == Normal[raw.id]

FileOf(raw) == IF raw.file = Default THEN DefaultFile[ChatOf(raw)] ELSE raw.file

MappingIsValid(fs, chats) ==
    /\ chats # <<>>
    /\ \A i \in DOMAIN chats :
          /\ chats[i].id \in DOMAIN Normal
          /\ FileOf(chats[i]) \in SafeNames
          /\ ~Dangling(fs, FileOf(chats[i]))
          /\ \A j \in 1..i - 1 :
                /\ ChatOf(chats[j]) # ChatOf(chats[i])
                /\ ~Collide(fs, FileOf(chats[j]), FileOf(chats[i]))
=============================================================================
