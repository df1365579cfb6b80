--------------------------- MODULE VariableLogger ---------------------------
(***************************************************************************)
(* The binary logs (logging/logging.cpp): loggers that fill a buffer each  *)
(* and flush it to a file, a map of their names, and the archive that the  *)
(* last of them makes of it all; and the reader of an archive              *)
(* (data/logz/file.py).                                                    *)
(*                                                                         *)
(* The loggers in Static are globals: they are constructed before main,    *)
(* in some order, and destroyed after it.  Any other lives while main      *)
(* runs (that of VRPN).  A logger is used by one thread; constructors and  *)
(* destructors take turns by constructor_lock.  The variable logged by the *)
(* n-th call of log is n, of which the bytes are <<n, 1>>, <<n, 2>>, ...   *)
(***************************************************************************)
EXTENDS Naturals, SequencesExt, FiniteSetsExt

CONSTANTS
    Static, Dynamic,   \* the loggers
    Size,              \* by logger: size() of its variable
    TimeSize,          \* bytes of a time; 8
    BufferSize,        \* sizeof(m_buffer); 8192
    MaxRecords         \* bound: calls of log per logger

Loggers == Static \cup Dynamic
RecordSize(l) == TimeSize + Size[l]

LogsKnown ==
    /\ Static # {} /\ IsFiniteSet(Loggers) /\ Static \cap Dynamic = {}
    /\ TimeSize \in Nat \ {0} /\ BufferSize \in Nat /\ MaxRecords \in Nat
    /\ \A l \in Loggers : Size[l] \in Nat /\ RecordSize(l) <= BufferSize
ASSUME LogsAssumption == LogsKnown

VARIABLES
    created, destroyed,   \* how many loggers were
    id,        \* by logger: m_id
    files,     \* by id: what the file holds
    map,       \* the map file: <<[name, id, size], ...>>
    archive,   \* the archives made, as functions from names of files
    filled,    \* by logger: m_buffer up to m_ptr
    total,     \* by logger: the bytes of it that flush has written
    doing,     \* by logger: where it is
    logged,    \* by logger: the calls of log that have returned
    dead       \* has the process been terminated?

library == <<created, destroyed, id, map, archive>>
logsVars == <<library, files, filled, total, doing, logged, dead>>

NoId == MaxRecords + Cardinality(Loggers)
RecordBytes(n, size) == [k \in 1 .. size |-> <<n, k>>]

LogsInit ==
    /\ created = 0 /\ destroyed = 0
    /\ id = [l \in Loggers |-> NoId]
    /\ files = [i \in {} |-> <<>>] /\ map = <<>> /\ archive = <<>>
    /\ filled = [l \in Loggers |-> <<>>] /\ total = [l \in Loggers |-> 0]
    /\ doing = [l \in Loggers |-> "unborn"]
    /\ logged = [l \in Loggers |-> 0] /\ dead = FALSE

Goto(l, place) == doing' = [doing EXCEPT ![l] = place]
Alive(l) == doing[l] \notin {"unborn", "gone"}

-----------------------------------------------------------------------------
\* initialize_variable_logging: the first logger, and the first after all
\* have gone, makes a new directory with an empty map.
NewDirectory == created = destroyed
MapSoFar == IF NewDirectory THEN <<>> ELSE map
FilesSoFar == IF NewDirectory THEN [i \in {} |-> <<>>] ELSE files

\* write_map
WriteMap(l) ==
    map' = Append(MapSoFar, [name |-> l, id |-> created, size |-> Size[l]])

\* The constructor.
Construct(l) ==
    /\ ~dead /\ doing[l] = "unborn"
    /\ l \in Dynamic => \A s \in Static : doing[s] \in {"idle", "flush"}
    /\ \A k \in Loggers : doing[k] # "destructor"
    /\ WriteMap(l)
    /\ files' = [i \in DOMAIN FilesSoFar \cup {created} |->
                    IF i = created THEN <<>> ELSE FilesSoFar[i]]
    /\ id' = [id EXCEPT ![l] = created]
    /\ created' = created + 1
    /\ Goto(l, "idle")
    /\ UNCHANGED <<destroyed, archive, filled, total, logged, dead>>

\* log: flush when the record does not fit, then append it.
HasRoom(l) == Len(filled[l]) + RecordSize(l) <= BufferSize
Record(l) == RecordBytes(logged[l] + 1, RecordSize(l))
Log(l) ==
    /\ ~dead /\ doing[l] = "idle" /\ logged[l] < MaxRecords
    /\ IF HasRoom(l)
       THEN /\ filled' = [filled EXCEPT ![l] = @ \o Record(l)]
            /\ logged' = [logged EXCEPT ![l] = @ + 1]
            /\ UNCHANGED doing
       ELSE Goto(l, "flush") /\ UNCHANGED <<filled, logged>>
    /\ UNCHANGED <<library, files, total, dead>>

\* A write of flush takes some of the rest of the buffer, at least a byte.
WrittenFromStart(l, n) == SubSeq(filled[l], 1, n)
Written(l, n) == SubSeq(filled[l], total[l] + 1, total[l] + n)
Flushing(l) == doing[l] \in {"flush", "destructor"} /\ filled[l] # <<>>
FlushWrites(l) ==
    /\ ~dead /\ Flushing(l)
    /\ \E n \in 1 .. Len(filled[l]) - total[l] :
          /\ files' = [files EXCEPT ![id[l]] = @ \o Written(l, n)]
          /\ IF total[l] + n = Len(filled[l])
             THEN /\ total' = [total EXCEPT ![l] = 0]
                  /\ filled' = [filled EXCEPT ![l] = <<>>]
             ELSE /\ total' = [total EXCEPT ![l] = @ + n]
                  /\ UNCHANGED filled
    /\ UNCHANGED <<library, doing, logged, dead>>
Flushed(l) ==
    /\ ~dead /\ doing[l] = "flush" /\ filled[l] = <<>>
    /\ Goto(l, "idle")
    /\ UNCHANGED <<library, files, filled, total, logged, dead>>

\* Nothing catches the exception of a write that fails, or of a constructor.
WriteFails(l) ==
    /\ ~dead /\ (Flushing(l) \/ doing[l] = "unborn")
    /\ dead' = TRUE
    /\ UNCHANGED <<library, files, filled, total, doing, logged>>

\* Nor does the watchdog ask before it kills.
Kill ==
    /\ ~dead /\ \A s \in Static : doing[s] \in {"idle", "flush"}
    /\ dead' = TRUE
    /\ UNCHANGED <<library, files, filled, total, doing, logged>>

\* clean_variable_logging: the map, and the files from 0 to the first that
\* is missing; then all of them are deleted.
FilesBelow(n) == {i \in 0 .. n - 1 : \A k \in 0 .. i : k \in DOMAIN files}
ArchivedButLast ==
    [map |-> map, data |-> [i \in FilesBelow(created - 1) |-> files[i]]]
Archived == [map |-> map, data |-> [i \in FilesBelow(created) |-> files[i]]]

\* The destructor: flush, close, and for the last logger clean up.  A global
\* is destroyed when main is over.
Destruct(l) ==
    /\ ~dead /\ doing[l] = "idle"
    /\ \A k \in Loggers : doing[k] # "destructor"
    /\ l \in Static => \A k \in Loggers : k \in Dynamic => ~Alive(k)
    /\ \A s \in Static : doing[s] # "unborn"
    /\ Goto(l, "destructor")
    /\ UNCHANGED <<library, files, filled, total, logged, dead>>
Destroyed(l) ==
    /\ ~dead /\ doing[l] = "destructor" /\ filled[l] = <<>>
    /\ Goto(l, "gone")
    /\ destroyed' = destroyed + 1
    /\ IF destroyed' # created
       THEN UNCHANGED <<files, archive>>
       ELSE /\ archive' = Append(archive, Archived)
            /\ files' = [i \in {} |-> <<>>]
    /\ UNCHANGED <<created, id, map, filled, total, logged, dead>>

\* The process is dead, or at its end.
Over ==
    /\ dead \/ \A l \in Static : doing[l] = "gone"
    /\ UNCHANGED logsVars

LogsNext ==
    \/ \E l \in Loggers :
          \/ Construct(l) \/ Log(l) \/ FlushWrites(l) \/ Flushed(l)
          \/ WriteFails(l) \/ Destruct(l) \/ Destroyed(l)
    \/ Kill \/ Over

LogsSpec == LogsInit /\ [][LogsNext]_logsVars

-----------------------------------------------------------------------------
(* The reader.                                                             *)

\* The last entry of a name counts; a file that is missing raises, and
\* np.frombuffer, which cuts the bytes up into records of the size in the
\* map, if some are left over.
Entry(a, name) ==
    LET places == {i \in DOMAIN a.map : a.map[i].name = name}
    IN  a.map[Max(places)]
Raises == << <<>> >>   \* no list of records is that
Read(a, name) ==
    LET file == Entry(a, name).id
        bytes == a.data[file]
        width == TimeSize + Entry(a, name).size
    IN  IF file \notin DOMAIN a.data THEN Raises
        ELSE IF Len(bytes) % width # 0 THEN Raises
        ELSE [n \in 1 .. Len(bytes) \div width |->
                 SubSeq(bytes, (n - 1) * width + 1, n * width)]

-----------------------------------------------------------------------------
\* Wherever the process stops, the file and what flush has still to write of
\* the buffer are the records logged, whole and in order; the buffer, which
\* is all that a kill can lose, never overflows.
NothingLost ==
    \A l \in Loggers : id[l] \in DOMAIN files =>
        /\ Len(filled[l]) <= BufferSize
        /\ files[id[l]] \o SubSeq(filled[l], total[l] + 1, Len(filled[l])) =
               FlattenSeq([n \in 1 .. logged[l] |->
                               RecordBytes(n, RecordSize(l))])

\* A process that ends as it should leaves one archive, from which every
\* logger's records are read back as they were logged.
ReadBack ==
    (\A s \in Static : doing[s] = "gone") =>
        /\ Len(archive) = 1
        /\ \A l \in Loggers : Alive(l) \/ doing[l] = "gone" =>
              Read(archive[1], l) =
                  [n \in 1 .. logged[l] |-> RecordBytes(n, RecordSize(l))]
=============================================================================
