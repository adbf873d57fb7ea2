------------------------------ MODULE FileTree ------------------------------
(***************************************************************************)
(* The directory tree that the server keeps of its devices: the table      *)
(* file_nodes and what its repository does to it.  Rows are numbered by    *)
(* their IDs, a path is a sequence of names, and of a row the columns are  *)
(* kept that the repository looks at.  Uuids come from three sources: the  *)
(* file's own attribute, device and path of a folder, and the path of a    *)
(* placeholder.  MySQL takes names for equal that differ in case only.     *)
(***************************************************************************)
EXTENDS Integers, Sequences, FiniteSetsExt

CONSTANTS
    Fold(_),    \* a name as the database compares it
    Strays,     \* pairs of paths of which the first, as a pattern of SQL, matches
                \* the second that is not below it: by "_", "%" or a backslash
    Escaped,    \* paths that do not match what is below them: by a backslash
    TooLong     \* paths whose placeholder has a uuid longer than its column

Folded(path)      == [i \in 1..Len(path) |-> Fold(path[i])]
SamePath(p, q)    == Len(p) = Len(q) /\ \A i \in 1..Len(p) : Fold(p[i]) = Fold(q[i])

FileUuid(name)         == [from |-> "file", of |-> <<name>>]
FolderUuid(dev, path)  == [from |-> "folder", of |-> <<dev>> \o path]
PlaceholderUuid(path)  == [from |-> "placeholder", of |-> Folded(path)]

Uuids == [from : {"file", "folder", "placeholder"}, of : Seq(STRING)]
Rows  == [device : STRING, parent : Nat, uuid : Uuids, path : Seq(STRING),
          type : {"file", "folder"}, deleted : BOOLEAN]

UniqueUuids(nodes) == \A m, n \in DOMAIN nodes : nodes[m].uuid = nodes[n].uuid => m = n

Node(dev, parent, uuid, path, type) ==
    [device |-> dev, parent |-> parent, uuid |-> uuid, path |-> path, type |-> type,
     deleted |-> FALSE]

(* The lowest of some IDs, 0 if there is none: First orders by the key.    *)
First(ids) == IF ids = {} THEN 0 ELSE Min(ids)

FindByUUID(nodes, uuid) == First({n \in DOMAIN nodes : nodes[n].uuid = uuid})

\* Slip: finding deleted rows too.
FindByPathDeleted(nodes, dev, path) ==
    First({n \in DOMAIN nodes : nodes[n].device = dev /\ SamePath(nodes[n].path, path)})

FindByPath(nodes, dev, path) ==
    First({n \in DOMAIN nodes :
             nodes[n].device = dev /\ SamePath(nodes[n].path, path) /\ ~nodes[n].deleted})

Dir(path) == IF path = <<>> THEN <<>> ELSE SubSeq(path, 1, Len(path) - 1)

(* What is in a folder, at any depth; the same whatever the case; and what *)
(* has a path LIKE dir/%.                                                  *)
Inside(dir, path) == Len(dir) < Len(path) /\ \A i \in 1..Len(dir) : dir[i] = path[i]
Within(dir, path) ==
    Len(dir) < Len(path) /\ \A i \in 1..Len(dir) : Fold(dir[i]) = Fold(path[i])
Below(dir, path) ==
    (Within(dir, path) /\ dir \notin Escaped) \/ <<dir, path>> \in Strays

\* Slip: a table without the unique index.
CreateAlways(nodes, row) == [nodes |-> Append(nodes, row), id |-> Len(nodes) + 1]

(* A placeholder is inserted unless its uuid is taken, by whichever device *)
(* and whether deleted or not, or too long: 0 is the error.                *)
Create(nodes, row) ==
    IF FindByUUID(nodes, row.uuid) # 0 \/ row.path \in TooLong
      THEN [nodes |-> nodes, id |-> 0]
      ELSE [nodes |-> Append(nodes, row), id |-> Len(nodes) + 1]

(* The folder at a path: its live row, or a placeholder made for it below  *)
(* what was found or made for the path above; none if the database fails   *)
(* to "find" or to "create" it.                                            *)
EnsureFolder(nodes, dev, path, above, error) ==
    LET found == FindByPath(nodes, dev, path)
    IN  IF error = "find" THEN [nodes |-> nodes, id |-> 0]
        ELSE IF found # 0 THEN [nodes |-> nodes, id |-> found]
        ELSE IF error = "create" THEN [nodes |-> above.nodes, id |-> 0]
        ELSE Create(above.nodes, Node(dev, above.id, PlaceholderUuid(path), path, "folder"))

(* The parent of a path: the folder at its directory, below the folder at  *)
(* the directory of that, and so on; nothing stands above the first name.  *)
(* An error leaves a folder without a parent and is dropped.               *)
EnsureParent(nodes, dev, path, errors) ==
    LET folder[n \in 0..Len(Dir(path))] ==
          IF n = 0 THEN [nodes |-> nodes, id |-> 0]
          ELSE EnsureFolder(nodes, dev, SubSeq(path, 1, n), folder[n - 1], errors[n])
    IN  folder[Len(Dir(path))]

Errors(path) == [1..Len(Dir(path)) -> {"none", "find", "create"}]
NoErrors(path) == [n \in 1..Len(Dir(path)) |-> "none"]

(* The row of a uuid takes a new path and parent and is live again; a row  *)
(* that is there keeps its device and type.                                *)
UpsertNode(nodes, dev, parent, uuid, path, type) ==
    LET n == FindByUUID(nodes, uuid)
    IN  IF n = 0 THEN Append(nodes, Node(dev, parent, uuid, path, type))
        ELSE [nodes EXCEPT ![n].path = path, ![n].parent = parent, ![n].deleted = FALSE]

DeleteRows(nodes, ids) ==
    [n \in DOMAIN nodes |-> IF n \in ids THEN [nodes[n] EXCEPT !.deleted = TRUE] ELSE nodes[n]]

(* The two halves of MarkDeleted: the row of the uuid, and if that is a    *)
(* folder every row of its device below its path.                          *)
MarkSelf(nodes, uuid) == DeleteRows(nodes, {FindByUUID(nodes, uuid)})

MarkBelow(nodes, uuid) ==
    LET n == FindByUUID(nodes, uuid)
    IN  IF n = 0 \/ nodes[n].type # "folder" THEN nodes
        ELSE DeleteRows(nodes, {k \in DOMAIN nodes :
               nodes[k].device = nodes[n].device /\ Below(nodes[n].path, nodes[k].path)})

(* What an administrator sees below a node, or at the top for 0, without   *)
(* the deleted rows; what is in sight when the folders in sight are        *)
(* opened; and all that can be reached in this way.                        *)
QueryTree(nodes, dev, parent) ==
    {n \in DOMAIN nodes :
        nodes[n].device = dev /\ nodes[n].parent = parent /\ ~nodes[n].deleted}

Opened(nodes, dev, shown) == shown \union UNION {QueryTree(nodes, dev, n) : n \in shown}

Browsed(nodes, dev) ==
    LET upto[depth \in 0..Len(nodes)] ==
          IF depth = 0 THEN QueryTree(nodes, dev, 0) ELSE Opened(nodes, dev, upto[depth - 1])
    IN  upto[Len(nodes)]
=============================================================================
