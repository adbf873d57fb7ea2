----------------------------- MODULE MCFileSync -----------------------------
(* Instances of FileSync for TLC. *)
EXTENDS FileSync

Put1(uuid, path, type) == [uuid |-> uuid, path |-> path, type |-> type, action |-> "put"]
Del(e)       == [e EXCEPT !.action = "delete"]
Folder(name) == Put1(FolderUuid("pc", <<name>>), <<name>>, "folder")
In(name)     == Put1(FileUuid("f"), <<name, "f">>, "file")

(* A file moves between three folders: one whose name is a pattern that    *)
(* matches that of another, which has a backslash, and one whose name      *)
(* differs from it in case and which has logged no event.                  *)
Changes ==
    {In("d_r"), In("D_R"), In("d\\r"), Del(In("d_r")),
     Folder("d_r"), Del(Folder("d_r")), Folder("d\\r"), Del(Folder("d\\r"))}

Lower(name) == IF name = "D_R" THEN "d_r" ELSE name

LookAlikes  == {<<<<"d_r">>, <<"d\\r">>>>, <<<<"d_r">>, <<"d\\r", "f">>>>}
Backslashed == {<<"d\\r">>}
Longest     == {<<"D_R">>}

(* Another device has had a directory of that name.                        *)
Foreign == <<Node("mac", 0, PlaceholderUuid(<<"d\\r">>), <<"d\\r">>, "folder")>>

ASSUME NamesAssumption == NamesKeepTheirKind
ASSUME OwnUuidsAssumption == StrangersOwnUuids
=============================================================================
