----------------------------- MODULE Namespace -----------------------------
(***************************************************************************)
(* What open, mkdir and mount promise: one tree of names, in which every   *)
(* call takes effect in one step, its return.  The directories of the disk *)
(* are simply there; nothing is loaded and nobody waits for anybody.       *)
(*                                                                         *)
(* An object is [fs, type, id]: fs is where it lives ("ram", "sys",        *)
(* "disk"), type is "dir", "file" or "dev".                                *)
(***************************************************************************)
EXTENDS Naturals, Integers, Sequences, FiniteSets

CONSTANTS
    Tasks,
    Calls,        \* the calls tasks make
    MaxCalls,     \* bound: the number of calls
    SLASH,        \* the separator in a path
    FixedLinks,   \* the entries of sysfs and of the disk: [dir, name, obj]
    DiskRoot,     \* the root directory of the disk
    Partitions,   \* names of the partitions' device files
    Formatted,    \* those that hold an exFAT file system
    ObjectIds     \* names for what is created in RAM

VARIABLES
    links,     \* the entries of the directories in RAM
    covers,    \* mounts: [dir, name, obj]
    call,      \* the call each task is in
    reply,     \* what its last call returned
    files,     \* the objects a task has open, in the order of their descriptors
    ncalls

vars == <<links, covers, call, reply, files, ncalls>>

NoCall == [op |-> "none"]

Root == [fs |-> "ram", type |-> "dir", id |-> 1]

Missing == [fs |-> "none", type |-> "none", id |-> 0]

Names(path) == SelectSeq(path, LAMBDA x : x # SLASH)

\* A slash at the end asks for a directory.
AsksForDir(path) == path # <<>> /\ path[Len(path)] = SLASH

Child(obj, name) ==
    LET Of(ls) == {l.obj : l \in {k \in ls : k.dir = obj /\ k.name = name}}
    IN CASE obj.type # "dir" -> Missing
         [] Of(covers) # {} -> CHOOSE o \in Of(covers) : TRUE
         [] Of(covers) = {} /\ Of(links \cup FixedLinks) # {} -> CHOOSE o \in Of(links \cup FixedLinks) : TRUE
         [] OTHER -> Missing

\* The objects along a path: At(path)[k] is where its first k names lead.
At(path) ==
    LET at[k \in 0 .. Len(Names(path))] ==
          IF k = 0 THEN Root ELSE Child(at[k - 1], Names(path)[k])
    IN at

Verdict(path) ==
    LET n == Len(Names(path))
        at == At(path)
    IN IF \E k \in 0 .. n : at[k].type \in {"file", "dev"} /\ (k < n \/ AsksForDir(path))
       THEN "not a directory"
       ELSE IF at[n] # Missing THEN "exists"
       ELSE IF at[n - 1] # Missing /\ ~ AsksForDir(path) THEN "could exist"
       ELSE "no parent"

Target(path) == At(path)[Len(Names(path))]
Parent(path) == At(path)[Len(Names(path)) - 1]
Last(path) == Names(path)[Len(Names(path))]

Created == {Root} \cup {l.obj : l \in links}

\* Something new in directory dir.
Create(dir, name, type, obj) ==
    /\ obj.fs = "ram" /\ obj.type = type /\ obj.id \in ObjectIds
    /\ \A o \in Created : o.id # obj.id
    /\ links' = links \cup {[dir |-> dir, name |-> name, obj |-> obj]}

NewObjects == {l.obj : l \in links' \ links}

-----------------------------------------------------------------------------
Init ==
    /\ links \subseteq [dir : [fs : {"ram"}, type : {"dir"}, id : ObjectIds],
                        name : {l.name : l \in links}, obj : {l.obj : l \in links}]
    /\ call = [t \in Tasks |-> NoCall]
    /\ reply = [t \in Tasks |-> 0]
    /\ files = [t \in Tasks |-> <<>>]
    /\ ncalls = 0
    \* sysfs is mounted while the system boots, before there is a task.
    /\ covers = {[dir |-> Root, name |-> <<"sys">>, obj |-> [fs |-> "sys", type |-> "dir", id |-> 0]]}

Invoke(t, c) ==
    /\ call[t] = NoCall
    /\ ncalls < MaxCalls
    /\ call' = [call EXCEPT ![t] = c]
    /\ ncalls' = ncalls + 1
    /\ UNCHANGED <<links, covers, reply, files>>

Returns(t, value) ==
    /\ call' = [call EXCEPT ![t] = NoCall]
    /\ reply' = [reply EXCEPT ![t] = value]
    /\ UNCHANGED ncalls

\* The descriptor is the next one.
Opens(t, obj) ==
    files' = [files EXCEPT ![t] = Append(@, obj)]

Open(t) ==
    LET c == call[t]
        v == Verdict(c.path)
    IN /\ c.op = "open"
       /\ UNCHANGED covers
       /\ \/ /\ v = "exists"
             /\ Opens(t, Target(c.path))
             \* Only files in RAM can be truncated: the call fails, and yet
             \* the file is open.
             /\ Returns(t, IF c.truncate /\ Target(c.path).type = "file" /\ Target(c.path).fs # "ram"
                           THEN -1 ELSE Len(files[t]))
             /\ UNCHANGED links
          \/ /\ v = "could exist" /\ c.create /\ Parent(c.path).fs = "ram"
             /\ \E new \in NewObjects :
                  Create(Parent(c.path), Last(c.path), "file", new) /\ Opens(t, new)
             /\ Returns(t, Len(files[t]))
          \/ /\ \/ v = "could exist" /\ (c.create => Parent(c.path).fs # "ram")
                \/ v \in {"not a directory", "no parent"}
             /\ Returns(t, CASE v = "not a directory" -> -1
                             [] v = "no parent" -> -2
                             [] v = "could exist" -> IF c.create THEN -4 ELSE -3)
             /\ UNCHANGED <<links, files>>

Mkdir(t) ==
    LET c == call[t]
        v == Verdict(c.path)
    IN /\ c.op = "mkdir"
       /\ UNCHANGED <<covers, files>>
       /\ \/ /\ v = "could exist" /\ Parent(c.path).fs = "ram"
             /\ \E new \in NewObjects : Create(Parent(c.path), Last(c.path), "dir", new)
             /\ Returns(t, 0)
          \* sysfs and exFAT create nothing, and the call returns 0 all the same.
          \/ /\ v = "could exist" => Parent(c.path).fs # "ram"
             /\ Returns(t, CASE v = "not a directory" -> -1
                             [] v = "no parent" -> -2
                             [] v = "exists" -> -3
                             [] v = "could exist" -> 0)
             /\ UNCHANGED links

\* Whatever was mounted there before is covered in turn.
Mount(t) ==
    LET c == call[t]
        refused == IF Verdict(c.path) # "exists" THEN -1
                   ELSE IF Verdict(c.on) # "exists" THEN -2
                   ELSE IF Target(c.on).type # "dir" THEN -3
                   ELSE IF ~ c.exfat THEN -4
                   ELSE IF Target(c.path).type # "dev" \/ Last(c.path) \notin Partitions THEN -10
                   ELSE IF Last(c.path) \notin Formatted THEN -11
                   ELSE 0
    IN /\ c.op = "mount"
       /\ UNCHANGED <<links, files>>
       /\ \/ /\ refused # 0
             /\ Returns(t, refused)
             /\ UNCHANGED covers
          \/ /\ refused = 0
             /\ LET dir == Parent(c.on)
                    old == {k \in covers : k.dir = dir /\ k.name = Last(c.on)}
                IN covers' = (covers \ old) \cup {[dir |-> dir, name |-> Last(c.on), obj |-> DiskRoot]}
             /\ Returns(t, 0)

\* A task that is killed in a call leaves no trace of it.
Abort(t) ==
    /\ call[t] # NoCall
    /\ call' = [call EXCEPT ![t] = NoCall]
    /\ files' = [files EXCEPT ![t] = <<>>]
    /\ UNCHANGED <<links, covers, reply, ncalls>>

\* The driver adds devices while tasks run.
AddDevices ==
    /\ \E dev \in {l.obj : l \in {k \in links : k.dir = Root /\ k.name = <<"dev">>}} :
         /\ links \subseteq links'
         /\ \A l \in links' \ links : l.dir = dev /\ l.obj.type = "dev"
    /\ UNCHANGED <<covers, call, reply, files, ncalls>>

Next ==
    \/ \E t \in Tasks :
         \/ \E c \in Calls : Invoke(t, c)
         \/ Open(t) \/ Mkdir(t) \/ Mount(t) \/ Abort(t)
    \/ AddDevices

Spec == Init /\ [][Next]_vars
=============================================================================
