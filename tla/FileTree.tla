------------------------------ MODULE FileTree ------------------------------
(***************************************************************************)
(* What filesystem.h promises: a tree of named files and directories.  A   *)
(* path is the sequence of names from the root, << >> the root itself.     *)
(* A directory may have several elements of one name; a path means the     *)
(* first of them, the others are found when it is gone.                    *)
(***************************************************************************)
EXTENDS Integers, Sequences, SequencesExt

CONSTANTS Path,     \* the paths of files and directories, without the root
          Id,       \* what tells two elements apart
          Root,     \* the id of the root directory
          Place     \* the places of a directory's elements, numbers

VARIABLE tree       \* what exists: the elements of all directories

Init == tree = {}

first(dir, name) ==
    {x \in tree : /\ x.in = dir /\ x.name = name
                  /\ \A y \in tree : y.in = dir /\ y.name = name => x.at <= y.at}

\* The id a path means, or none.
find(path) ==
    LET at[n \in 0 .. Len(path)] ==
            IF n = 0 THEN {Root}
            ELSE UNION {{x.id : x \in first(dir, path[n])} : dir \in at[n - 1]}
    IN at[Len(path)]

isFile(id) == \E x \in tree : x.id = id /\ x.kind = "file"

\* mkdir and open: a new element of an existing directory, behind the others.
\* Only open asks for a new name.
Create(path, kind) ==
    \E dir \in find(Front(path)), id \in Id, place \in Place :
        /\ ~isFile(dir)
        /\ kind = "file" => find(path) = {}
        /\ id # Root /\ \A x \in tree : x.id # id
        /\ \A x \in tree : x.in = dir => x.at < place
        /\ tree' = tree \cup {[id |-> id, in |-> dir, at |-> place,
                               name |-> Last(path), kind |-> kind]}

\* What is in every set that has top and the elements of what it has.
below(top) ==
    {id \in Id : \A S \in SUBSET Id :
                    (top \in S /\ \A x \in tree : x.in \in S => x.id \in S) => id \in S}

\* rm: a file; rm -r: a directory and all that is in it.
Unlink(path) ==
    \E top \in find(path) : tree' = {x \in tree : x.id \notin below(top)}

Next == \E path \in Path : Unlink(path) \/ \E kind \in {"dir", "file"} : Create(path, kind)

Spec == Init /\ [][Next]_tree
=============================================================================
