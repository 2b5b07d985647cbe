---------------------------- MODULE ProfileStore ----------------------------
(***************************************************************************)
(* The profiles of config.rs and what main.rs does with them.  The list is  *)
(* kept in memory and in config.yaml; the content of a profile is a file    *)
(* named by its hash, shared by profiles with equal content.  An operation  *)
(* runs on the UI thread and writes its files one after the other; the      *)
(* process may die at any of them, and errors of the writes are ignored.    *)
(* Downloads end at any time, in any order, and act on the name and URL     *)
(* they captured.                                                          *)
(***************************************************************************)
EXTENDS Naturals, Sequences, FiniteSets, SequencesExt

CONSTANTS Bases,      \* names a user or provider asks for
          Urls,       \* subscription addresses
          Serves,     \* Serves[u]: contents the URL may answer with
          LocalFiles, \* contents of local files
          None,       \* Option::None
          Cut,        \* a URL cut off by a crash
          MaxOps, MaxDownloads, MaxCrashes \* bounds: operations, downloads at a time, crashes

VARIABLES profiles,   \* sequence of [name, hash, kind, url]; a name is [base, n] for base#n
          default,    \* default_name
          config,     \* config.yaml: [default, entries]
          files,      \* content files: function from hashes to "whole" or "torn"
          todo,       \* files the operation under way has still to write, in order
          begun,      \* the first of them is partly written
          downloads,  \* set of [op, name, url]
          up,         \* the program is running
          ops, crashes,
          failed,     \* ghost: a write has failed
          damaged,    \* ghost: contents whose write was cut short
          origin      \* ghost: pairs of a name and a URL it has had

Name == [base : Bases, n : 0 .. MaxOps]

ASSUME StoreAssumption ==
    /\ MaxOps \in Nat /\ MaxDownloads \in Nat /\ MaxCrashes \in Nat
    /\ None \notin Urls /\ Cut \notin Urls /\ None \notin Name

vars == <<profiles, default, config, files, todo, begun, downloads, up, ops, crashes, failed, damaged, origin>>
disk == <<config, files, begun, failed, damaged>>

Hashes(ps) == {ps[i].hash : i \in DOMAIN ps}
Names(ps) == {ps[i].name : i \in DOMAIN ps}
Index(ps, name) == CHOOSE i \in DOMAIN ps : ps[i].name = name

(* active: the default profile, or the first one. *)
Active == IF default \in Names(profiles) THEN profiles[Index(profiles, default)] ELSE profiles[1]

-----------------------------------------------------------------------------
(* save and load_from_file.  Names and URLs are escaped and unquoted; that is
   the identity for everything without line breaks. *)
Load(c) == [default |-> IF c.default = None /\ c.entries # <<>> THEN c.entries[1].name ELSE c.default, entries |-> c.entries]

(* What load_from_file makes of a file that ends too early: the entries before,
   and the last one once its hash is complete, Local without its type, without
   its URL or with a part of it. *)
Torn(c) ==
    {[default |-> None, entries |-> <<>>]}
    \cup {[default |-> c.default, entries |-> SubSeq(c.entries, 1, k)] : k \in 0 .. Len(c.entries) - 1}
    \cup UNION {{[default |-> c.default, entries |-> [SubSeq(c.entries, 1, k) EXCEPT ![k].kind = cut.kind, ![k].url = cut.url]] :
                    cut \in {[kind |-> "local", url |-> None], [kind |-> "cloud", url |-> None], [kind |-> "cloud", url |-> Cut]}} :
                k \in {j \in DOMAIN c.entries : c.entries[j].kind = "cloud"}}

SaveContent(hash) == [write |-> "content", hash |-> hash]
SaveConfig(ps, d) == [write |-> "config", config |-> [default |-> d, entries |-> ps]]

(* delete_if_unreferenced, after the list has been saved. *)
Delete(hash, ps) == IF hash \in Hashes(ps) THEN <<>> ELSE <<[write |-> "delete", hash |-> hash]>>

(* An operation: the new list in memory, and its writes. *)
Perform(ps, d, writes) ==
    /\ profiles' = ps
    /\ default' = d
    /\ todo' = writes
    /\ UNCHANGED <<disk, up, crashes>>

Idle == up /\ todo = <<>>
Request == Idle /\ ops < MaxOps /\ ops' = ops + 1

Init ==
    /\ profiles = <<>> /\ default = None
    /\ config = [default |-> None, entries |-> <<>>]
    /\ files = <<>>
    /\ todo = <<>> /\ begun = FALSE
    /\ downloads = {}
    /\ up = TRUE
    /\ ops = 0 /\ crashes = 0
    /\ failed = FALSE /\ damaged = {}
    /\ origin = {}

-----------------------------------------------------------------------------
(* The first of base, base#1, base#2 ... that is not taken. *)
AllocateUniqueName(base, name) ==
    /\ name.base = base
    /\ name \notin Names(profiles)
    /\ \A m \in 0 .. name.n - 1 : [base |-> base, n |-> m] \in Names(profiles)

(* Mutant of Add: the list is saved before the default changes. *)
AddSavesFirst(base, hash, kind, url) ==
    \E name \in Name :
        /\ AllocateUniqueName(base, name)
        /\ LET ps == Append(profiles, [name |-> name, hash |-> hash, kind |-> kind, url |-> url])
           IN  Perform(ps, name, <<SaveContent(hash), SaveConfig(ps, default)>>)
        /\ origin' = origin \cup (IF url = None THEN {} ELSE {<<name, url>>})

(* add_local and the end of add_cloud: the new profile becomes the default. *)
Add(base, hash, kind, url) ==
    \E name \in Name :
        /\ AllocateUniqueName(base, name)
        /\ LET ps == Append(profiles, [name |-> name, hash |-> hash, kind |-> kind, url |-> url])
           IN  Perform(ps, name, <<SaveContent(hash), SaveConfig(ps, name)>>)
        /\ origin' = origin \cup (IF url = None THEN {} ELSE {<<name, url>>})

AddLocal ==
    /\ Request
    /\ \E base \in Bases, c \in LocalFiles : Add(base, c, "local", None)
    /\ UNCHANGED downloads

(* confirm_dialog and update_profile start a download; an update captures the
   name and the URL of the active profile. *)
StartAdd ==
    /\ Request
    /\ \E base \in Bases, u \in Urls : downloads' = downloads \cup {[op |-> "add", name |-> [base |-> base, n |-> 0], url |-> u]}
    /\ Cardinality(downloads') <= MaxDownloads
    /\ UNCHANGED <<profiles, default, disk, todo, up, crashes, origin>>

StartUpdate ==
    /\ Request
    /\ profiles # <<>>
    /\ Active.kind = "cloud" /\ Active.url # None
    /\ downloads' = downloads \cup {[op |-> "update", name |-> Active.name, url |-> Active.url]}
    /\ Cardinality(downloads') <= MaxDownloads
    /\ UNCHANGED <<profiles, default, disk, todo, up, crashes, origin>>

DownloadFailed ==
    /\ Idle
    /\ \E d \in downloads : downloads' = downloads \ {d}
    /\ UNCHANGED <<profiles, default, disk, todo, up, ops, crashes, origin>>

AddCloud ==
    /\ Idle
    /\ \E d \in downloads :
         /\ d.op = "add"
         /\ downloads' = downloads \ {d}
         /\ \E c \in Serves[d.url] : Add(d.name.base, c, "cloud", d.url)
    /\ UNCHANGED ops

(* Mutant of Updated: the profile that is active when the download ends. *)
UpdatedActive(name, c) ==
    LET i == Index(profiles, Active.name)
        ps == [profiles EXCEPT ![i].hash = c]
    IN  Perform(ps, default, <<SaveContent(c), SaveConfig(ps, default)>> \o Delete(profiles[i].hash, ps))

(* Mutant of Updated: the old content is deleted before the list is saved. *)
UpdatedDeletesFirst(name, c) ==
    LET i == Index(profiles, name)
        ps == [profiles EXCEPT ![i].hash = c]
    IN  Perform(ps, default, Delete(profiles[i].hash, ps) \o <<SaveContent(c), SaveConfig(ps, default)>>)

Updated(name, c) ==
    LET i == Index(profiles, name)
        ps == [profiles EXCEPT ![i].hash = c]
    IN  Perform(ps, default, <<SaveContent(c), SaveConfig(ps, default)>> \o Delete(profiles[i].hash, ps))

(* update_cloud by name: an error when the profile is gone or is a local one by now. *)
UpdateCloud ==
    /\ Idle
    /\ \E d \in downloads :
         /\ d.op = "update"
         /\ downloads' = downloads \ {d}
         /\ IF \E i \in DOMAIN profiles : profiles[i].name = d.name /\ profiles[i].kind = "cloud"
            THEN d.url \in Urls /\ \E c \in Serves[d.url] : Updated(d.name, c)
            ELSE UNCHANGED <<profiles, default, disk, todo, up, crashes>>
    /\ UNCHANGED <<ops, origin>>

SetDefault ==
    /\ Request
    /\ \E name \in Names(profiles) : Perform(profiles, name, <<SaveConfig(profiles, name)>>)
    /\ UNCHANGED <<downloads, origin>>

(* The default after the i-th profile was removed. *)
Successor(ps, i, name) ==
    CASE ps = <<>> -> None
      [] ps # <<>> /\ (default = name \/ default \notin Names(ps)) -> IF i <= Len(ps) THEN ps[i].name ELSE ps[1].name
      [] OTHER -> default

(* remove, of the active profile. *)
RemoveProfile ==
    /\ Request
    /\ profiles # <<>>
    /\ LET i == Index(profiles, Active.name)
           ps == RemoveAt(profiles, i)
           d == Successor(ps, i, Active.name)
       IN  Perform(ps, d, <<SaveConfig(ps, d)>> \o Delete(profiles[i].hash, ps))
    /\ UNCHANGED <<downloads, origin>>

-----------------------------------------------------------------------------
memory == <<profiles, default, downloads, up, ops, crashes, origin>>

Without(f, x) == [h \in DOMAIN f \ {x} |-> f[h]]
With(f, x, v) == [h \in DOMAIN f \cup {x} |-> IF h = x THEN v ELSE f[h]]

(* ContentStore::save writes only files that do not exist. *)
BeginContent ==
    /\ todo # <<>> /\ ~begun
    /\ Head(todo).write = "content"
    /\ IF Head(todo).hash \in DOMAIN files
       THEN todo' = Tail(todo) /\ UNCHANGED <<files, begun>>
       ELSE files' = With(files, Head(todo).hash, "torn") /\ begun' = TRUE /\ UNCHANGED todo
    /\ UNCHANGED <<memory, config, failed, damaged>>

EndContent ==
    /\ begun /\ Head(todo).write = "content"
    /\ files' = With(files, Head(todo).hash, "whole")
    /\ todo' = Tail(todo) /\ begun' = FALSE
    /\ damaged' = damaged \ {Head(todo).hash}
    /\ UNCHANGED <<memory, config, failed>>

(* fs::write truncates config.yaml and writes it. *)
BeginConfig ==
    /\ todo # <<>> /\ ~begun
    /\ Head(todo).write = "config"
    /\ config' \in Torn(Head(todo).config)
    /\ begun' = TRUE
    /\ UNCHANGED <<memory, files, todo, failed, damaged>>

EndConfig ==
    /\ begun /\ Head(todo).write = "config"
    /\ config' = Head(todo).config
    /\ todo' = Tail(todo) /\ begun' = FALSE
    /\ UNCHANGED <<memory, files, failed, damaged>>

DeleteContent ==
    /\ todo # <<>> /\ Head(todo).write = "delete"
    /\ files' = Without(files, Head(todo).hash)
    /\ todo' = Tail(todo)
    /\ damaged' = damaged \ {Head(todo).hash}
    /\ UNCHANGED <<memory, config, begun, failed>>

(* The content that is being written when the write stops. *)
Stopped == IF todo # <<>> /\ Head(todo).write = "content" /\ begun THEN {Head(todo).hash} ELSE {}

(* A write fails, before or after it began, and the operation goes on. *)
Fault ==
    /\ todo # <<>> /\ ~failed
    /\ todo' = Tail(todo) /\ begun' = FALSE
    /\ failed' = TRUE
    /\ damaged' = damaged \cup Stopped
    /\ UNCHANGED <<memory, config, files>>

Crash ==
    /\ up
    /\ crashes < MaxCrashes
    /\ up' = FALSE
    /\ todo' = <<>> /\ begun' = FALSE
    /\ downloads' = {}
    /\ damaged' = damaged \cup Stopped
    /\ crashes' = crashes + 1
    /\ UNCHANGED <<profiles, default, config, files, ops, failed, origin>>

(* load_or_migrate. *)
Start ==
    /\ ~up
    /\ up' = TRUE
    /\ profiles' = Load(config).entries
    /\ default' = Load(config).default
    /\ UNCHANGED <<disk, todo, downloads, ops, crashes, origin>>

Next ==
    \/ AddLocal \/ StartAdd \/ StartUpdate \/ DownloadFailed \/ AddCloud \/ UpdateCloud \/ SetDefault \/ RemoveProfile
    \/ BeginContent \/ EndContent \/ BeginConfig \/ EndConfig \/ DeleteContent \/ Fault
    \/ Crash \/ Start

Spec == Init /\ [][Next]_vars

-----------------------------------------------------------------------------
(* Every profile config.yaml lists, at every point at which the process may die,
   has its content on disk, and whole: contents are written before the list names
   them and deleted after the list has forgotten them, also when profiles share
   one.  (A content cut short by a crash stays: ContentStore::save keeps a file
   that exists.  After a failed write of config.yaml the old content is deleted
   all the same.) *)
ContentKept ==
    ~failed => \A h \in Hashes(config.entries) : h \in DOMAIN files /\ (files[h] = "whole" \/ h \in damaged)

(* The content of a cloud profile came from its URL, however downloads, switches
   and deletions interleave.  (Names are reused: a download that began for an
   earlier profile of the name is taken for this one.) *)
ContentFromUrl ==
    \A i \in DOMAIN profiles :
        LET p == profiles[i]
        IN  p.kind = "cloud" => \E u \in Urls : <<p.name, u>> \in origin /\ p.hash \in Serves[u]

(* Whenever no operation is at work, a restart would bring up the very profiles
   and the active one that are shown. *)
SavedIsShown ==
    Idle /\ ~failed => Load(config) = [default |-> default, entries |-> profiles]
=============================================================================
