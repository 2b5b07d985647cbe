-------------------------- MODULE ProfileStoreProofs --------------------------
(***************************************************************************)
(* Profiles, their content files and config.yaml: whatever the process     *)
(* dies in, the list on disk names only contents that are there; contents  *)
(* come from the URL of their profile; and what is shown is what a restart *)
(* would bring up.  For any names, URLs, contents, number of profiles and  *)
(* downloads, operations and crashes.                                      *)
(***************************************************************************)
EXTENDS ProfileStore, SequenceTheorems, TLAPS

Hash    == (UNION {Serves[u] : u \in Urls}) \cup LocalFiles
Link    == Urls \cup {None, Cut}
Profile == [name : Name, hash : Hash, kind : {"local", "cloud"}, url : Link]
Config  == [default : Name \cup {None}, entries : Seq(Profile)]
Write   == [write : {"content", "delete"}, hash : Hash] \cup [write : {"config"}, config : Config]

TypeOK ==
    /\ profiles \in Seq(Profile) /\ default \in Name \cup {None}
    /\ config \in Config
    /\ files \in [DOMAIN files -> {"whole", "torn"}]
    /\ todo \in Seq(Write) /\ begun \in BOOLEAN
    /\ downloads \subseteq [op : {"add", "update"}, name : Name, url : Link]
    /\ up \in BOOLEAN /\ failed \in BOOLEAN
    /\ damaged \subseteq Hash

Is(i, w) == todo[i].write = w

(* The writes of an operation: contents, the list as it is in memory, and then the
   content the list has forgotten. *)
Ordered ==
    /\ todo # <<>> => up
    /\ begun => todo # <<>> /\ ~Is(1, "delete")
    /\ \A i \in DOMAIN todo : Is(i, "config") => todo[i].config = [default |-> default, entries |-> profiles]
    /\ \A i \in DOMAIN todo : Is(i, "delete") => todo[i].hash \notin Hashes(profiles)
    /\ \A i, j \in DOMAIN todo : Is(i, "content") /\ Is(j, "config") => i < j
    /\ \A i, j \in DOMAIN todo : Is(i, "config") /\ Is(j, "delete") => i < j

(* A list that is not empty has a default. *)
HasDefault == profiles # <<>> => default # None

Good(h)    == h \in DOMAIN files /\ (files[h] = "whole" \/ h \in damaged)
Writing(h) == begun /\ todo # <<>> /\ Is(1, "content") /\ todo[1].hash = h
Pending(h) == \E i \in DOMAIN todo : Is(i, "content") /\ todo[i].hash = h
Listing    == \E i \in DOMAIN todo : Is(i, "config")

(* A file is whole, known to be damaged, or just being written. *)
FilesKnown == \A h \in DOMAIN files : Good(h) \/ Writing(h)

(* While no write has failed: what config.yaml lists is there; what is shown is there
   or about to be written; and config.yaml is what is shown, or about to be. *)
OnDisk ==
    ~failed =>
        /\ \A h \in Hashes(config.entries) : Good(h)
        /\ up => \A h \in Hashes(profiles) : Good(h) \/ Pending(h)
        /\ up => Listing \/ Load(config) = [default |-> default, entries |-> profiles]

(* Cloud profiles, in memory and on disk, and the updates under way. *)
FromUrl(p, had) ==
    p.kind = "cloud" =>
        /\ \E u \in Urls : <<p.name, u>> \in had /\ p.hash \in Serves[u]
        /\ p.url \in Urls => <<p.name, p.url>> \in had

Rightful(d, had) ==
    /\ d.op = "add" => d.url \in Urls
    /\ d.op = "update" /\ d.url \in Urls => <<d.name, d.url>> \in had

Sourced ==
    /\ \A i \in DOMAIN profiles : FromUrl(profiles[i], origin)
    /\ \A i \in DOMAIN config.entries : FromUrl(config.entries[i], origin)
    /\ \A d \in downloads : Rightful(d, origin)

StoreInv == TypeOK /\ Ordered /\ HasDefault /\ FilesKnown /\ OnDisk /\ Sourced

-------------------------------------------------------------------------------
(* What the writes of an operation look like.                                  *)

(* In order, of this list and this default, and the list is among them. *)
Proper(w, ps, d) ==
    /\ w \in Seq(Write) /\ w # <<>>
    /\ \A i \in DOMAIN w : w[i].write = "config" => w[i].config = [default |-> d, entries |-> ps]
    /\ \A i \in DOMAIN w : w[i].write = "delete" => w[i].hash \notin Hashes(ps)
    /\ \A i, j \in DOMAIN w : w[i].write = "content" /\ w[j].write = "config" => i < j
    /\ \A i, j \in DOMAIN w : w[i].write = "config" /\ w[j].write = "delete" => i < j
    /\ \E i \in DOMAIN w : w[i].write = "config"

LEMMA WriteTypes ==
    ASSUME NEW ps \in Seq(Profile), NEW d \in Name \cup {None}, NEW h \in Hash
    PROVE  /\ SaveContent(h) \in Write /\ SaveContent(h).write = "content" /\ SaveContent(h).hash = h
           /\ SaveConfig(ps, d) \in Write /\ SaveConfig(ps, d).write = "config"
           /\ SaveConfig(ps, d).config = [default |-> d, entries |-> ps]
           /\ [write |-> "delete", hash |-> h] \in Write
<1>1. [default |-> d, entries |-> ps] \in Config
    BY DEF Config
<1>2. SaveConfig(ps, d) \in [write : {"config"}, config : Config]
    BY <1>1 DEF SaveConfig
<1>3. SaveConfig(ps, d).write = "config" /\ SaveConfig(ps, d).config = [default |-> d, entries |-> ps]
    BY DEF SaveConfig
<1> QED
    BY <1>2, <1>3 DEF SaveContent, Write

(* A write is of one kind. *)
LEMMA WriteFields ==
    ASSUME NEW w \in Write
    PROVE  /\ w.write \in {"content", "config", "delete"}
           /\ w.write = "config" => w.config \in Config
           /\ w.write # "config" => w.hash \in Hash
BY DEF Write

(* Deleting what the list has forgotten comes last. *)
LEMMA DeleteLast ==
    ASSUME NEW ps \in Seq(Profile), NEW d \in Name \cup {None}, NEW h \in Hash, NEW w, Proper(w, ps, d),
           \A i \in DOMAIN w : w[i].write # "delete"
    PROVE  /\ Proper(w \o Delete(h, ps), ps, d)
           /\ \A i \in DOMAIN w : i \in DOMAIN (w \o Delete(h, ps)) /\ (w \o Delete(h, ps))[i] = w[i]
<1>0. w \in Seq(Write)
    BY DEF Proper
<1>1. CASE h \in Hashes(ps)
    <2>1. w \o Delete(h, ps) = w
        BY <1>0, <1>1, ConcatEmptySeq DEF Delete
    <2> QED
        BY <2>1
<1>2. CASE h \notin Hashes(ps)
    <2> DEFINE x == [write |-> "delete", hash |-> h]
               v == w \o <<x>>
    <2>1. x \in Write /\ x.write = "delete" /\ x.hash = h
        BY WriteTypes
    <2>2. w \o Delete(h, ps) = v
        BY <1>2 DEF Delete
    <2> HIDE DEF x
    <2>3. <<x>> \in Seq(Write) /\ Len(<<x>>) = 1 /\ <<x>>[1] = x
        BY <2>1
    <2>4. /\ v \in Seq(Write) /\ Len(v) = Len(w) + 1
          /\ \A i \in 1 .. Len(w) + 1 : v[i] = IF i <= Len(w) THEN w[i] ELSE <<x>>[i - Len(w)]
        BY <1>0, <2>3, ConcatProperties
    <2>5. DOMAIN v = 1 .. Len(w) + 1 /\ DOMAIN w = 1 .. Len(w) /\ Len(w) \in Nat
        BY <1>0, <2>4
    <2>6. /\ v[Len(w) + 1] = x
          /\ \A i \in DOMAIN w : i \in DOMAIN v /\ v[i] = w[i]
        BY <2>3, <2>4, <2>5
    <2> HIDE DEF v
    <2>7. \A i \in DOMAIN v : i \in DOMAIN w \/ (i = Len(w) + 1 /\ v[i] = x)
        BY <2>5, <2>6
    <2>8. v # <<>>
        BY <2>4, <2>5
    <2>9. Proper(v, ps, d)
        <3>0. v \in Seq(Write) /\ Len(w) \in Nat /\ \A i \in DOMAIN w : i < Len(w) + 1
            BY <2>4, <2>5
        <3>1. \A i \in DOMAIN v : v[i].write = "config" => i \in DOMAIN w /\ v[i].config = [default |-> d, entries |-> ps]
            BY <2>1, <2>6, <2>7 DEF Proper
        <3>2. \A i \in DOMAIN v : v[i].write = "delete" => i = Len(w) + 1 /\ v[i].hash \notin Hashes(ps)
            BY <1>2, <2>1, <2>6, <2>7
        <3>3. \A i \in DOMAIN v : v[i].write = "content" => i \in DOMAIN w
            BY <2>1, <2>7
        <3>4. \A i, j \in DOMAIN v : v[i].write = "content" /\ v[j].write = "config" => i < j
            BY <2>6, <3>1, <3>3 DEF Proper
        <3>5. \A i, j \in DOMAIN v : v[i].write = "config" /\ v[j].write = "delete" => i < j
            BY <3>0, <3>1, <3>2
        <3>6. \E i \in DOMAIN v : v[i].write = "config"
            BY <2>6 DEF Proper
        <3> QED
            BY <2>8, <3>0, <3>1, <3>2, <3>4, <3>5, <3>6 DEF Proper
    <2> QED
        BY <2>2, <2>6, <2>9
<1> QED
    BY <1>1, <1>2

LEMMA ProperWrites ==
    ASSUME NEW ps \in Seq(Profile), NEW d \in Name \cup {None}, NEW h \in Hash
    PROVE  /\ Proper(<<SaveConfig(ps, d)>>, ps, d)
           /\ \A i \in DOMAIN <<SaveConfig(ps, d)>> : <<SaveConfig(ps, d)>>[i].write # "delete"
           /\ Proper(<<SaveContent(h), SaveConfig(ps, d)>>, ps, d)
           /\ \A i \in DOMAIN <<SaveContent(h), SaveConfig(ps, d)>> :
                <<SaveContent(h), SaveConfig(ps, d)>>[i].write # "delete"
           /\ 1 \in DOMAIN <<SaveContent(h), SaveConfig(ps, d)>>
           /\ <<SaveContent(h), SaveConfig(ps, d)>>[1] = SaveContent(h)
<1> DEFINE a == SaveContent(h)
           b == SaveConfig(ps, d)
<1>1. /\ a \in Write /\ a.write = "content"
      /\ b \in Write /\ b.write = "config" /\ b.config = [default |-> d, entries |-> ps]
    BY WriteTypes
<1> HIDE DEF a, b
<1>2. <<b>> \in Seq(Write) /\ DOMAIN <<b>> = {1} /\ <<b>>[1] = b /\ <<b>> # <<>>
    BY <1>1
<1>3. /\ <<a, b>> \in Seq(Write) /\ DOMAIN <<a, b>> = {1, 2} /\ <<a, b>>[1] = a /\ <<a, b>>[2] = b
      /\ <<a, b>> # <<>>
    BY <1>1
<1>4. Proper(<<b>>, ps, d) /\ \A i \in DOMAIN <<b>> : <<b>>[i].write # "delete"
    BY <1>1, <1>2 DEF Proper
<1>5. Proper(<<a, b>>, ps, d) /\ \A i \in DOMAIN <<a, b>> : <<a, b>>[i].write # "delete"
    BY <1>1, <1>3 DEF Proper
<1> QED
    BY <1>3, <1>4, <1>5 DEF a, b

-------------------------------------------------------------------------------
(* Operations: they start when nothing is being written.                       *)

LEMMA HashesOf ==
    ASSUME NEW ps \in Seq(Profile)
    PROVE  /\ \A h : h \in Hashes(ps) <=> \E i \in DOMAIN ps : ps[i].hash = h
           /\ Hashes(ps) \subseteq Hash
           /\ \A i \in DOMAIN ps : ps[i] \in Profile
<1>1. \A i \in DOMAIN ps : ps[i] \in Profile
    OBVIOUS
<1>2. \A i \in DOMAIN ps : ps[i].hash \in Hash
    BY <1>1 DEF Profile
<1> QED
    BY <1>1, <1>2 DEF Hashes

LEMMA Performed ==
    ASSUME StoreInv, Idle,
           NEW ps \in Seq(Profile), NEW d \in Name \cup {None}, NEW w, Perform(ps, d, w), Proper(w, ps, d),
           ps # <<>> => d # None,
           \A h \in Hashes(ps) : \/ h \in Hashes(profiles)
                                 \/ \E i \in DOMAIN w : w[i].write = "content" /\ w[i].hash = h,
           \A j \in DOMAIN ps : FromUrl(ps[j], origin'),
           origin \subseteq origin', downloads' \subseteq downloads
    PROVE  StoreInv'
<1> USE DEF StoreInv
<1>0. /\ profiles' = ps /\ default' = d /\ todo' = w
      /\ UNCHANGED <<config, files, begun, failed, damaged, up>>
      /\ todo = <<>> /\ up /\ ~begun
    BY DEF Perform, disk, Idle, Ordered
<1>1. TypeOK'
    BY <1>0 DEF TypeOK, Proper
<1>2. Ordered'
    <2>1. ~begun' /\ up'
        BY <1>0
    <2> QED
        BY <1>0, <2>1 DEF Ordered, Proper, Is
<1>3. HasDefault'
    BY <1>0 DEF HasDefault
<1>4. \A h : Good(h)' <=> Good(h)
    BY <1>0 DEF Good
<1>5. FilesKnown'
    BY <1>0, <1>4 DEF FilesKnown, Writing
<1>6. OnDisk'
    <2>1. \A h : ~Pending(h)
        BY <1>0 DEF Pending
    <2>2. Listing'
        BY <1>0 DEF Listing, Proper, Is
    <2>3. ~failed => \A h \in Hashes(ps) : Good(h)' \/ Pending(h)'
        <3> SUFFICES ASSUME ~failed, NEW h \in Hashes(ps) PROVE Good(h)' \/ Pending(h)'
            OBVIOUS
        <3>1. CASE h \in Hashes(profiles)
            BY <1>0, <1>4, <2>1, <3>1 DEF OnDisk
        <3>2. CASE \E i \in DOMAIN w : w[i].write = "content" /\ w[i].hash = h
            BY <1>0, <3>2 DEF Pending, Is
        <3> QED
            BY <3>1, <3>2
    <2>4. ~failed => \A h \in Hashes(config.entries) : Good(h)'
        BY <1>4 DEF OnDisk
    <2> QED
        BY <1>0, <2>2, <2>3, <2>4 DEF OnDisk
<1>7. Sourced'
    <2>1. \A i \in DOMAIN config.entries : FromUrl(config.entries[i], origin')
        BY DEF Sourced, FromUrl
    <2>2. \A x \in downloads' : Rightful(x, origin')
        BY DEF Sourced, Rightful
    <2> QED
        BY <1>0, <2>1, <2>2 DEF Sourced
<1> QED
    BY <1>1, <1>2, <1>3, <1>5, <1>6, <1>7

(* A new profile. *)
LEMMA AddStep ==
    ASSUME StoreInv, Idle, NEW b \in Bases, NEW h \in Hash,
           NEW kind \in {"local", "cloud"}, NEW url \in Urls \cup {None},
           kind = "cloud" => url \in Urls /\ h \in Serves[url],
           Add(b, h, kind, url), downloads' \subseteq downloads
    PROVE  StoreInv'
<1>1. PICK name \in Name :
        /\ Perform(Append(profiles, [name |-> name, hash |-> h, kind |-> kind, url |-> url]), name,
                   <<SaveContent(h), SaveConfig(Append(profiles, [name |-> name, hash |-> h, kind |-> kind, url |-> url]), name)>>)
        /\ origin' = origin \cup (IF url = None THEN {} ELSE {<<name, url>>})
    BY DEF Add
<1> DEFINE p == [name |-> name, hash |-> h, kind |-> kind, url |-> url]
           ps == Append(profiles, p)
           w == <<SaveContent(h), SaveConfig(ps, name)>>
<1>2. p \in Profile /\ p.name = name /\ p.hash = h /\ p.kind = kind /\ p.url = url
    BY DEF Profile, Link
<1>3. Perform(ps, name, w)
    BY <1>1
<1> HIDE DEF p
<1>4. profiles \in Seq(Profile)
    BY DEF StoreInv, TypeOK
<1>5. /\ ps \in Seq(Profile) /\ DOMAIN ps = 1 .. Len(profiles) + 1 /\ ps # <<>>
      /\ \A i \in DOMAIN ps : ps[i] = p \/ (i \in DOMAIN profiles /\ ps[i] = profiles[i])
    BY <1>2, <1>4, AppendProperties
<1> HIDE DEF ps
<1>6. name # None /\ name \in Name \cup {None}
    BY StoreAssumption
<1>7. Proper(w, ps, name) /\ 1 \in DOMAIN w /\ w[1].write = "content" /\ w[1].hash = h
    BY <1>5, <1>6, ProperWrites, WriteTypes
<1> HIDE DEF w
<1>8. \A x \in Hashes(ps) : x \in Hashes(profiles) \/ \E i \in DOMAIN w : w[i].write = "content" /\ w[i].hash = x
    BY <1>2, <1>4, <1>5, <1>7, HashesOf
<1>9. origin \subseteq origin'
    BY <1>1
<1>10. FromUrl(p, origin')
    <2>1. CASE kind = "cloud"
        <3>1. url \in Urls /\ url # None /\ h \in Serves[url]
            BY <2>1, StoreAssumption
        <3>2. <<name, url>> \in origin'
            BY <1>1, <3>1
        <3> QED
            BY <1>2, <3>1, <3>2 DEF FromUrl
    <2> QED
        BY <1>2, <2>1 DEF FromUrl
<1>11. \A j \in DOMAIN ps : FromUrl(ps[j], origin')
    BY <1>5, <1>9, <1>10 DEF StoreInv, Sourced, FromUrl
<1> QED
    BY <1>3, <1>5, <1>6, <1>7, <1>8, <1>9, <1>11, Performed

LEMMA Indexed ==
    ASSUME NEW ps \in Seq(Profile), NEW name \in Names(ps)
    PROVE  Index(ps, name) \in DOMAIN ps /\ ps[Index(ps, name)].name = name
<1>1. \E i \in DOMAIN ps : ps[i].name = name
    BY DEF Names
<1> QED
    BY <1>1 DEF Index

(* update_cloud: another content for the profile of this name. *)
LEMMA UpdateStep ==
    ASSUME StoreInv, Idle, NEW name \in Names(profiles), NEW u \in Urls, NEW c \in Serves[u],
           <<name, u>> \in origin, Updated(name, c), downloads' \subseteq downloads, UNCHANGED origin
    PROVE  StoreInv'
<1> DEFINE i == Index(profiles, name)
           ps == [profiles EXCEPT ![i].hash = c]
           v == <<SaveContent(c), SaveConfig(ps, default)>>
           w == v \o Delete(profiles[i].hash, ps)
<1>1. Perform(ps, default, w)
    BY DEF Updated
<1>2. profiles \in Seq(Profile) /\ default \in Name \cup {None} /\ c \in Hash
    BY DEF StoreInv, TypeOK, Hash
<1>3. i \in DOMAIN profiles /\ profiles[i].name = name
    BY <1>2, Indexed
<1>4. profiles[i] \in Profile /\ profiles[i].hash \in Hash
    <2>1. profiles[i] \in Profile
        BY <1>2, <1>3
    <2> QED
        BY <2>1 DEF Profile
<1>5. /\ [profiles[i] EXCEPT !.hash = c] \in Profile
      /\ [profiles[i] EXCEPT !.hash = c].hash = c /\ [profiles[i] EXCEPT !.hash = c].name = name
      /\ [profiles[i] EXCEPT !.hash = c].kind = profiles[i].kind
      /\ [profiles[i] EXCEPT !.hash = c].url = profiles[i].url
    BY <1>2, <1>3, <1>4 DEF Profile
<1> HIDE DEF i
<1>6. ps = [profiles EXCEPT ![i] = [profiles[i] EXCEPT !.hash = c]]
    OBVIOUS
<1>7. /\ ps \in Seq(Profile) /\ DOMAIN ps = DOMAIN profiles
      /\ ps[i] = [profiles[i] EXCEPT !.hash = c]
      /\ \A j \in DOMAIN ps : j # i => ps[j] = profiles[j]
    BY <1>2, <1>3, <1>5, <1>6
<1>8. ps[i].hash = c /\ ps[i].name = name /\ ps[i].kind = profiles[i].kind /\ ps[i].url = profiles[i].url
    BY <1>5, <1>7
<1> HIDE DEF ps
<1>s. ps \in Seq(Profile)
    BY <1>7
<1>9. Proper(v, ps, default) /\ 1 \in DOMAIN v /\ v[1].write = "content" /\ v[1].hash = c
      /\ \A j \in DOMAIN v : v[j].write # "delete"
    <2>1. Proper(v, ps, default) /\ (\A j \in DOMAIN v : v[j].write # "delete") /\ 1 \in DOMAIN v /\ v[1] = SaveContent(c)
        BY <1>2, <1>s, ProperWrites
    <2>2. SaveContent(c).write = "content" /\ SaveContent(c).hash = c
        BY DEF SaveContent
    <2> QED
        BY <2>1, <2>2
<1> HIDE DEF v
<1>10. Proper(w, ps, default) /\ 1 \in DOMAIN w /\ w[1] = v[1]
    BY <1>2, <1>4, <1>7, <1>9, DeleteLast
<1> HIDE DEF w
<1>11. \A x \in Hashes(ps) : x \in Hashes(profiles) \/ \E j \in DOMAIN w : w[j].write = "content" /\ w[j].hash = x
    <2> SUFFICES ASSUME NEW x \in Hashes(ps)
                 PROVE  x \in Hashes(profiles) \/ \E j \in DOMAIN w : w[j].write = "content" /\ w[j].hash = x
        OBVIOUS
    <2>1. PICK j \in DOMAIN ps : ps[j].hash = x
        BY <1>s, HashesOf
    <2>2. CASE j = i
        BY <1>8, <1>9, <1>10, <2>1, <2>2
    <2>3. CASE j # i
        <3>1. j \in DOMAIN profiles /\ profiles[j].hash = x
            BY <1>7, <2>1, <2>3
        <3> QED
            BY <1>2, <3>1, HashesOf
    <2> QED
        BY <2>2, <2>3
<1>12. ps # <<>> => default # None
    <2>1. profiles # <<>>
        BY <1>2, <1>3
    <2> QED
        BY <2>1 DEF StoreInv, HasDefault
<1>13. \A j \in DOMAIN ps : FromUrl(ps[j], origin')
    <2>1. ASSUME NEW j \in DOMAIN ps, j # i PROVE FromUrl(ps[j], origin')
        BY <1>7, <2>1 DEF StoreInv, Sourced
    <2>2. FromUrl(profiles[i], origin)
        BY <1>3 DEF StoreInv, Sourced
    <2>3. FromUrl(ps[i], origin')
        BY <1>3, <1>8, <2>2 DEF FromUrl
    <2> QED
        BY <2>1, <2>3
<1> QED
    BY <1>1, <1>2, <1>7, <1>10, <1>11, <1>12, <1>13, Performed

(* Choosing another profile. *)
LEMMA DefaultStep ==
    ASSUME StoreInv, Idle, NEW name \in Names(profiles),
           Perform(profiles, name, <<SaveConfig(profiles, name)>>), UNCHANGED <<downloads, origin>>
    PROVE  StoreInv'
<1>1. profiles \in Seq(Profile)
    BY DEF StoreInv, TypeOK
<1>2. name \in Name /\ name # None
    <2>1. PICK i \in DOMAIN profiles : profiles[i].name = name
        BY DEF Names
    <2>2. profiles[i] \in Profile
        BY <1>1, <2>1
    <2>3. name \in Name
        BY <2>1, <2>2 DEF Profile
    <2> QED
        BY <2>3, StoreAssumption
<1>3. PICK h \in Hash : TRUE
    <2>1. PICK i \in DOMAIN profiles : TRUE
        BY DEF Names
    <2>2. profiles[i].hash \in Hash
        BY <1>1, <2>1, HashesOf
    <2> QED
        BY <2>2
<1>4. Proper(<<SaveConfig(profiles, name)>>, profiles, name)
    BY <1>1, <1>2, <1>3, ProperWrites
<1>5. \A j \in DOMAIN profiles : FromUrl(profiles[j], origin')
    BY DEF StoreInv, Sourced
<1> QED
    BY <1>1, <1>2, <1>4, <1>5, Performed

(* What is left when a profile is removed was there before. *)
LEMMA Removed ==
    ASSUME NEW ps \in Seq(Profile), NEW i \in DOMAIN ps
    PROVE  /\ RemoveAt(ps, i) \in Seq(Profile)
           /\ \A j \in DOMAIN RemoveAt(ps, i) : \E k \in DOMAIN ps : RemoveAt(ps, i)[j] = ps[k]
<1> DEFINE a == SubSeq(ps, 1, i - 1)
           b == SubSeq(ps, i + 1, Len(ps))
<1>0. i \in 1 .. Len(ps) /\ Len(ps) \in Nat
    OBVIOUS
<1>1. /\ a \in Seq(Profile) /\ Len(a) = i - 1
      /\ \A j \in 1 .. i - 1 : a[j] = ps[j]
    <2>1. \A j \in 1 .. i - 1 : ps[j] \in Profile
        BY <1>0
    <2> QED
        BY <1>0, <2>1, SubSeqProperties
<1>2. /\ b \in Seq(Profile) /\ Len(b) = Len(ps) - i
      /\ \A j \in 1 .. Len(ps) - i : b[j] = ps[i + j]
    <2>1. \A j \in i + 1 .. Len(ps) : ps[j] \in Profile
        BY <1>0
    <2>2. /\ b \in Seq(Profile) /\ Len(b) = IF i + 1 <= Len(ps) THEN Len(ps) - (i + 1) + 1 ELSE 0
          /\ \A j \in 1 .. Len(ps) - (i + 1) + 1 : b[j] = ps[(i + 1) + j - 1]
        BY <1>0, <2>1, SubSeqProperties
    <2> HIDE DEF b
    <2> QED
        BY <1>0, <2>2
<1>3. RemoveAt(ps, i) = a \o b
    BY DEF RemoveAt
<1> HIDE DEF a, b
<1>4. /\ a \o b \in Seq(Profile) /\ Len(a \o b) = Len(ps) - 1
      /\ \A j \in 1 .. Len(ps) - 1 : (a \o b)[j] = IF j <= i - 1 THEN a[j] ELSE b[j - (i - 1)]
    BY <1>0, <1>1, <1>2, ConcatProperties
<1>5. ASSUME NEW j \in 1 .. Len(ps) - 1 PROVE \E k \in DOMAIN ps : (a \o b)[j] = ps[k]
    <2>1. CASE j <= i - 1
        BY <1>0, <1>1, <1>4, <2>1
    <2>2. CASE ~(j <= i - 1)
        <3>1. j - (i - 1) \in 1 .. Len(ps) - i /\ i + (j - (i - 1)) = j + 1 /\ j + 1 \in DOMAIN ps
            BY <1>0, <2>2
        <3>2. (a \o b)[j] = b[j - (i - 1)]
            BY <1>4, <2>2
        <3>3. b[j - (i - 1)] = ps[j + 1]
            BY <1>2, <3>1
        <3> QED
            BY <3>1, <3>2, <3>3
    <2> QED
        BY <2>1, <2>2
<1>6. DOMAIN (a \o b) = 1 .. Len(ps) - 1
    BY <1>4
<1> QED
    BY <1>3, <1>4, <1>5, <1>6

LEMMA ActiveListed ==
    ASSUME profiles \in Seq(Profile), profiles # <<>>
    PROVE  \E k \in DOMAIN profiles : Active = profiles[k]
<1>1. 1 \in DOMAIN profiles
    OBVIOUS
<1> QED
    BY <1>1, Indexed DEF Active

LEMMA NamesTyped ==
    ASSUME NEW ps \in Seq(Profile)
    PROVE  /\ \A i \in DOMAIN ps : ps[i].name \in Name
           /\ Names(ps) \subseteq Name
<1>1. \A i \in DOMAIN ps : ps[i] \in Profile
    OBVIOUS
<1>2. \A i \in DOMAIN ps : ps[i].name \in Name
    BY <1>1 DEF Profile
<1> QED
    BY <1>2 DEF Names

(* The profile after the removed one, or the first. *)
LEMMA SuccessorListed ==
    ASSUME NEW ps \in Seq(Profile), NEW i \in Nat \ {0}, NEW name
    PROVE  /\ Successor(ps, i, name) \in Name \cup {None}
           /\ ps # <<>> => Successor(ps, i, name) # None
<1>1. CASE ps = <<>>
    BY <1>1 DEF Successor
<1>2. CASE ps # <<>>
    <2>1. 1 \in DOMAIN ps /\ (i <= Len(ps) => i \in DOMAIN ps)
        BY <1>2
    <2>2. ps[1].name \in Name /\ (i <= Len(ps) => ps[i].name \in Name)
        BY <2>1, NamesTyped
    <2>3. CASE default = name \/ default \notin Names(ps)
        <3>1. Successor(ps, i, name) = IF i <= Len(ps) THEN ps[i].name ELSE ps[1].name
            BY <1>2, <2>3 DEF Successor
        <3> QED
            BY <2>2, <3>1, StoreAssumption
    <2>4. CASE ~(default = name \/ default \notin Names(ps))
        <3>1. Successor(ps, i, name) = default /\ default \in Names(ps)
            BY <1>2, <2>4 DEF Successor
        <3> QED
            BY <3>1, NamesTyped, StoreAssumption
    <2> QED
        BY <2>3, <2>4
<1> QED
    BY <1>1, <1>2

LEMMA RemoveStep ==
    ASSUME StoreInv, RemoveProfile
    PROVE  StoreInv'
<1> DEFINE name == Active.name
           i == Index(profiles, name)
           ps == RemoveAt(profiles, i)
           d == Successor(ps, i, name)
           v == <<SaveConfig(ps, d)>>
           w == v \o Delete(profiles[i].hash, ps)
<1>0. Idle /\ profiles # <<>> /\ Perform(ps, d, w) /\ UNCHANGED <<downloads, origin>>
    BY DEF RemoveProfile, Request
<1>1. profiles \in Seq(Profile)
    BY DEF StoreInv, TypeOK
<1>2. name \in Names(profiles)
    BY <1>0, <1>1, ActiveListed DEF Names
<1>3. i \in DOMAIN profiles
    BY <1>1, <1>2, Indexed
<1> HIDE DEF name, i
<1>4. i \in Nat \ {0} /\ profiles[i].hash \in Hash
    <2>1. profiles[i].hash \in Hash
        BY <1>1, <1>3, HashesOf
    <2> QED
        BY <1>1, <1>3, <2>1
<1>5. ps \in Seq(Profile) /\ \A j \in DOMAIN ps : \E k \in DOMAIN profiles : ps[j] = profiles[k]
    BY <1>1, <1>3, Removed
<1> HIDE DEF ps
<1>6. d \in Name \cup {None} /\ (ps # <<>> => d # None)
    BY <1>4, <1>5, SuccessorListed
<1> HIDE DEF d
<1>7. Proper(v, ps, d) /\ \A j \in DOMAIN v : v[j].write # "delete"
    BY <1>4, <1>5, <1>6, ProperWrites
<1> HIDE DEF v
<1>8. Proper(w, ps, d)
    BY <1>4, <1>5, <1>6, <1>7, DeleteLast
<1> HIDE DEF w
<1>9. \A h \in Hashes(ps) : h \in Hashes(profiles)
    BY <1>1, <1>5, HashesOf
<1>10. \A j \in DOMAIN ps : FromUrl(ps[j], origin')
    BY <1>0, <1>5 DEF StoreInv, Sourced
<1> QED
    BY <1>0, <1>5, <1>6, <1>8, <1>9, <1>10, Performed

(* Downloads begin and end; the list and the files stand still. *)
LEMMA DownloadStep ==
    ASSUME StoreInv, UNCHANGED <<profiles, default, config, files, todo, begun, up, failed, damaged, origin>>,
           downloads' \subseteq [op : {"add", "update"}, name : Name, url : Link],
           \A d \in downloads' : Rightful(d, origin)
    PROVE  StoreInv'
<1> USE DEF StoreInv
<1>1. TypeOK'
    BY DEF TypeOK
<1>2. Ordered' /\ HasDefault'
    BY DEF Ordered, HasDefault, Is
<1>3. FilesKnown' /\ OnDisk'
    BY DEF FilesKnown, OnDisk, Good, Writing, Pending, Listing, Load, Is
<1>4. Sourced'
    BY DEF Sourced
<1> QED
    BY <1>1, <1>2, <1>3, <1>4

LEMMA StartStep ==
    ASSUME StoreInv, StartAdd \/ StartUpdate \/ DownloadFailed
    PROVE  StoreInv'
<1> USE DEF disk
<1>0. /\ downloads \subseteq [op : {"add", "update"}, name : Name, url : Link]
      /\ \A d \in downloads : Rightful(d, origin)
      /\ profiles \in Seq(Profile)
    BY DEF StoreInv, TypeOK, Sourced
<1>1. CASE StartAdd
    <2>1. PICK base \in Bases, u \in Urls :
            downloads' = downloads \cup {[op |-> "add", name |-> [base |-> base, n |-> 0], url |-> u]}
        BY <1>1 DEF StartAdd
    <2>2. [base |-> base, n |-> 0] \in Name
        BY StoreAssumption DEF Name
    <2>3. [op |-> "add", name |-> [base |-> base, n |-> 0], url |-> u] \in [op : {"add", "update"}, name : Name, url : Link]
        BY <2>2 DEF Link
    <2>4. UNCHANGED <<profiles, default, config, files, todo, begun, up, failed, damaged, origin>>
        BY <1>1 DEF StartAdd
    <2>5. Rightful([op |-> "add", name |-> [base |-> base, n |-> 0], url |-> u], origin)
        BY DEF Rightful
    <2> QED
        BY <1>0, <2>1, <2>3, <2>4, <2>5, DownloadStep
<1>2. CASE StartUpdate
    <2>1. PICK k \in DOMAIN profiles : Active = profiles[k]
        BY <1>0, <1>2, ActiveListed DEF StartUpdate
    <2>2. profiles[k] \in Profile /\ FromUrl(profiles[k], origin) /\ profiles[k].kind = "cloud"
        BY <1>0, <1>2, <2>1 DEF StartUpdate, StoreInv, Sourced
    <2>3. downloads' = downloads \cup {[op |-> "update", name |-> profiles[k].name, url |-> profiles[k].url]}
        BY <1>2, <2>1 DEF StartUpdate
    <2>4. profiles[k].name \in Name /\ profiles[k].url \in Link
        BY <2>2 DEF Profile
    <2>5. Rightful([op |-> "update", name |-> profiles[k].name, url |-> profiles[k].url], origin)
        BY <2>2 DEF FromUrl, Rightful
    <2>6. UNCHANGED <<profiles, default, config, files, todo, begun, up, failed, damaged, origin>>
        BY <1>2 DEF StartUpdate
    <2> QED
        BY <1>0, <2>3, <2>4, <2>5, <2>6, DownloadStep
<1>3. CASE DownloadFailed
    <2>1. downloads' \subseteq downloads
        BY <1>3 DEF DownloadFailed
    <2>2. UNCHANGED <<profiles, default, config, files, todo, begun, up, failed, damaged, origin>>
        BY <1>3 DEF DownloadFailed
    <2> QED
        BY <1>0, <2>1, <2>2, DownloadStep
<1> QED
    BY <1>1, <1>2, <1>3

LEMMA OperationStep ==
    ASSUME StoreInv, AddLocal \/ AddCloud \/ UpdateCloud \/ SetDefault
    PROVE  StoreInv'
<1>0. /\ downloads \subseteq [op : {"add", "update"}, name : Name, url : Link]
      /\ \A x \in downloads : Rightful(x, origin)
    BY DEF StoreInv, TypeOK, Sourced
<1>1. CASE AddLocal
    <2>1. PICK base \in Bases, c \in LocalFiles : Add(base, c, "local", None)
        BY <1>1 DEF AddLocal
    <2>2. c \in Hash
        BY <2>1 DEF Hash
    <2>3. Idle /\ UNCHANGED downloads
        BY <1>1 DEF AddLocal, Request
    <2> QED
        BY <2>1, <2>2, <2>3, AddStep
<1>2. CASE AddCloud
    <2>1. PICK x \in downloads :
            x.op = "add" /\ downloads' = downloads \ {x} /\ \E c \in Serves[x.url] : Add(x.name.base, c, "cloud", x.url)
        BY <1>2 DEF AddCloud
    <2>2. PICK c \in Serves[x.url] : Add(x.name.base, c, "cloud", x.url)
        BY <2>1
    <2>3. x.url \in Urls /\ x.name \in Name
        BY <1>0, <2>1 DEF Rightful
    <2>4. x.name.base \in Bases /\ c \in Hash
        BY <2>3 DEF Name, Hash
    <2>5. Idle /\ downloads' \subseteq downloads
        BY <1>2, <2>1 DEF AddCloud
    <2> QED
        BY <2>2, <2>3, <2>4, <2>5, AddStep
<1>3. CASE UpdateCloud
    <2>1. PICK x \in downloads :
            /\ x.op = "update"
            /\ downloads' = downloads \ {x}
            /\ IF \E i \in DOMAIN profiles : profiles[i].name = x.name /\ profiles[i].kind = "cloud"
               THEN x.url \in Urls /\ \E c \in Serves[x.url] : Updated(x.name, c)
               ELSE UNCHANGED <<profiles, default, disk, todo, up, crashes>>
        BY <1>3 DEF UpdateCloud
    <2>2. Idle /\ UNCHANGED origin /\ downloads' \subseteq downloads
        BY <1>3, <2>1 DEF UpdateCloud
    <2>3. CASE \E i \in DOMAIN profiles : profiles[i].name = x.name /\ profiles[i].kind = "cloud"
        <3>1. x.name \in Names(profiles)
            BY <2>3 DEF Names
        <3>2. x.url \in Urls /\ <<x.name, x.url>> \in origin
            BY <1>0, <2>1, <2>3 DEF Rightful
        <3>3. PICK c \in Serves[x.url] : Updated(x.name, c)
            BY <2>1, <2>3
        <3> QED
            BY <2>2, <3>1, <3>2, <3>3, UpdateStep
    <2>4. CASE ~\E i \in DOMAIN profiles : profiles[i].name = x.name /\ profiles[i].kind = "cloud"
        <3>1. UNCHANGED <<profiles, default, disk, todo, up, crashes>>
            BY <2>1, <2>4
        <3>2. UNCHANGED <<profiles, default, config, files, todo, begun, up, failed, damaged, origin>>
            BY <2>2, <3>1 DEF disk
        <3> QED
            BY <1>0, <2>2, <3>2, DownloadStep
    <2> QED
        BY <2>3, <2>4
<1>4. CASE SetDefault
    <2>1. PICK name \in Names(profiles) : Perform(profiles, name, <<SaveConfig(profiles, name)>>)
        BY <1>4 DEF SetDefault
    <2>2. Idle /\ UNCHANGED <<downloads, origin>>
        BY <1>4 DEF SetDefault, Request
    <2> QED
        BY <2>1, <2>2, DefaultStep
<1> QED
    BY <1>1, <1>2, <1>3, <1>4

-------------------------------------------------------------------------------
(* The writes, one by one.                                                     *)

LEMMA Headed ==
    ASSUME todo \in Seq(Write), todo # <<>>
    PROVE  1 \in DOMAIN todo /\ Head(todo) = todo[1] /\ todo[1] \in Write
OBVIOUS

LEMMA TailEffect ==
    ASSUME todo \in Seq(Write), todo # <<>>, todo' = Tail(todo)
    PROVE  /\ todo' \in Seq(Write)
           /\ \A i \in DOMAIN todo' : i + 1 \in DOMAIN todo /\ todo'[i] = todo[i + 1] /\ i \in Nat
           /\ \A i \in DOMAIN todo : i = 1 \/ (i - 1 \in DOMAIN todo' /\ todo'[i - 1] = todo[i])
<1>1. todo' \in Seq(Write) /\ Len(todo') = Len(todo) - 1 /\ \A i \in 1 .. Len(todo') : todo'[i] = todo[i + 1]
    BY HeadTailProperties
<1>2. DOMAIN todo = 1 .. Len(todo) /\ Len(todo) \in Nat /\ DOMAIN todo' = 1 .. Len(todo') /\ Len(todo') \in Nat
    BY <1>1
<1>3. \A i \in DOMAIN todo' : i + 1 \in DOMAIN todo /\ todo'[i] = todo[i + 1] /\ i \in Nat
    BY <1>1, <1>2
<1>4. ASSUME NEW i \in DOMAIN todo, i # 1 PROVE i - 1 \in DOMAIN todo' /\ todo'[i - 1] = todo[i]
    <2>1. i - 1 \in DOMAIN todo' /\ (i - 1) + 1 = i
        BY <1>1, <1>2, <1>4
    <2> QED
        BY <1>3, <2>1
<1> QED
    BY <1>1, <1>3, <1>4

(* The next write: the order of those that are left, and which are. *)
LEMMA NextWrite ==
    ASSUME TypeOK, Ordered, todo # <<>>, todo' = Tail(todo), begun' = FALSE,
           UNCHANGED <<up, profiles, default>>
    PROVE  /\ Ordered' /\ todo' \in Seq(Write)
           /\ \A h : Pending(h) => Pending(h)' \/ (Is(1, "content") /\ todo[1].hash = h)
           /\ \A h : Pending(h)' => Pending(h)
           /\ Listing => Listing' \/ Is(1, "config")
           /\ Listing' => Listing
<1>0. /\ todo' \in Seq(Write)
      /\ \A i \in DOMAIN todo' : i + 1 \in DOMAIN todo /\ todo'[i] = todo[i + 1] /\ i \in Nat
      /\ \A i \in DOMAIN todo : i = 1 \/ (i - 1 \in DOMAIN todo' /\ todo'[i - 1] = todo[i])
    BY TailEffect DEF TypeOK
<1>1. Ordered'
    <2>1. ~begun' /\ up'
        BY DEF Ordered
    <2>2. /\ \A i \in DOMAIN todo' : todo'[i].write = "config" => todo'[i].config = [default |-> default, entries |-> profiles]
          /\ \A i \in DOMAIN todo' : todo'[i].write = "delete" => todo'[i].hash \notin Hashes(profiles)
        BY <1>0 DEF Ordered, Is
    <2>3. ASSUME NEW i \in DOMAIN todo', NEW j \in DOMAIN todo'
          PROVE  /\ todo'[i].write = "content" /\ todo'[j].write = "config" => i < j
                 /\ todo'[i].write = "config" /\ todo'[j].write = "delete" => i < j
        <3>1. /\ i + 1 \in DOMAIN todo /\ j + 1 \in DOMAIN todo /\ i \in Nat /\ j \in Nat
              /\ todo'[i] = todo[i + 1] /\ todo'[j] = todo[j + 1]
            BY <1>0
        <3>2. /\ todo'[i].write = "content" /\ todo'[j].write = "config" => i + 1 < j + 1
              /\ todo'[i].write = "config" /\ todo'[j].write = "delete" => i + 1 < j + 1
            BY <3>1 DEF Ordered, Is
        <3> QED
            BY <3>1, <3>2
    <2> QED
        BY <2>1, <2>2, <2>3 DEF Ordered, Is
<1>2. \A h : Pending(h) => Pending(h)' \/ (Is(1, "content") /\ todo[1].hash = h)
    BY <1>0 DEF Pending, Is
<1>3. \A h : Pending(h)' => Pending(h)
    BY <1>0 DEF Pending, Is
<1>4. (Listing => Listing' \/ Is(1, "config")) /\ (Listing' => Listing)
    BY <1>0 DEF Listing, Is
<1> QED
    BY <1>0, <1>1, <1>2, <1>3, <1>4

(* ContentStore::save. *)
LEMMA ContentStep ==
    ASSUME StoreInv, BeginContent \/ EndContent
    PROVE  StoreInv'
<1> USE DEF StoreInv, memory
<1>0. /\ todo # <<>> /\ todo \in Seq(Write) /\ 1 \in DOMAIN todo /\ Head(todo) = todo[1]
      /\ Is(1, "content") /\ todo[1].hash \in Hash
      /\ UNCHANGED <<profiles, default, downloads, up, origin, config, failed>>
    <2>1. todo # <<>> /\ Head(todo).write = "content"
        BY DEF BeginContent, EndContent, Ordered
    <2> QED
        BY <2>1, Headed, WriteFields DEF TypeOK, BeginContent, EndContent, Is
<1>h. PICK h : h = todo[1].hash
    OBVIOUS
<1>1. HasDefault' /\ Sourced'
    BY <1>0 DEF HasDefault, Sourced
<1>2. CASE BeginContent /\ h \in DOMAIN files
    <2>1. todo' = Tail(todo) /\ ~begun /\ UNCHANGED <<files, begun, damaged>>
        BY <1>0, <1>h, <1>2 DEF BeginContent
    <2>2. begun' = FALSE
        BY <2>1 DEF TypeOK
    <2>3. /\ Ordered' /\ todo' \in Seq(Write)
          /\ \A k : Pending(k) => Pending(k)' \/ k = h
          /\ Listing => Listing'
        BY <1>0, <1>h, <2>1, <2>2, NextWrite DEF Is
    <2>4. TypeOK'
        BY <1>0, <2>1, <2>3 DEF TypeOK
    <2>5. \A k : Good(k)' <=> Good(k)
        BY <2>1 DEF Good
    <2>6. \A k \in DOMAIN files : Good(k)
        BY <2>1 DEF FilesKnown, Writing
    <2>7. FilesKnown'
        BY <2>1, <2>5, <2>6 DEF FilesKnown
    <2>8. OnDisk'
        BY <1>0, <1>2, <2>3, <2>5, <2>6 DEF OnDisk, Load
    <2> QED
        BY <1>1, <2>3, <2>4, <2>7, <2>8
<1>3. CASE BeginContent /\ h \notin DOMAIN files
    <2>1. files' = With(files, h, "torn") /\ begun' = TRUE /\ UNCHANGED <<todo, damaged>>
        BY <1>0, <1>h, <1>3 DEF BeginContent
    <2>2. /\ DOMAIN files' = DOMAIN files \cup {h}
          /\ files' \in [DOMAIN files' -> {"whole", "torn"}]
          /\ \A k \in DOMAIN files : files'[k] = files[k]
        BY <1>3, <2>1 DEF With, TypeOK
    <2>3. begun' \in BOOLEAN
        BY <2>1
    <2>4. TypeOK'
        BY <1>0, <2>1, <2>2, <2>3 DEF TypeOK
    <2>5. Ordered'
        BY <1>0, <2>1 DEF Ordered, Is
    <2>6. \A k : Good(k) => Good(k)'
        BY <2>1, <2>2 DEF Good
    <2>7. ~begun
        BY <1>3 DEF BeginContent
    <2>8. FilesKnown'
        BY <1>0, <1>h, <2>1, <2>2, <2>6, <2>7 DEF FilesKnown, Writing, Is
    <2>9. OnDisk'
        <3>1. \A k : Pending(k)' <=> Pending(k)
            BY <2>1 DEF Pending, Is
        <3>2. Listing' <=> Listing
            BY <2>1 DEF Listing, Is
        <3> QED
            BY <1>0, <2>6, <3>1, <3>2 DEF OnDisk, Load
    <2> QED
        BY <1>1, <2>4, <2>5, <2>8, <2>9
<1>4. CASE EndContent
    <2>1. /\ files' = With(files, h, "whole") /\ todo' = Tail(todo) /\ begun' = FALSE
          /\ damaged' = damaged \ {h}
        BY <1>0, <1>h, <1>4 DEF EndContent
    <2>2. /\ DOMAIN files' = DOMAIN files \cup {h}
          /\ files' \in [DOMAIN files' -> {"whole", "torn"}]
          /\ files'[h] = "whole" /\ \A k \in DOMAIN files : k # h => files'[k] = files[k]
        BY <2>1 DEF With, TypeOK
    <2>3. /\ Ordered' /\ todo' \in Seq(Write)
          /\ \A k : Pending(k) => Pending(k)' \/ k = h
          /\ Listing => Listing'
        BY <1>0, <1>h, <2>1, NextWrite DEF Is
    <2>4. begun' \in BOOLEAN
        BY <2>1
    <2>5. TypeOK'
        BY <1>0, <2>1, <2>2, <2>3, <2>4 DEF TypeOK
    <2>6. Good(h)' /\ \A k : Good(k) => Good(k)'
        BY <2>1, <2>2 DEF Good
    <2>7. FilesKnown'
        BY <1>0, <1>h, <2>1, <2>2, <2>6 DEF FilesKnown, Writing, Is
    <2>8. OnDisk'
        BY <1>0, <2>3, <2>6 DEF OnDisk, Load
    <2> QED
        BY <1>1, <2>3, <2>5, <2>7, <2>8
<1> QED
    BY <1>2, <1>3, <1>4

(* A list that ends too early: its entries are entries of the whole list, but for the
   kind and the URL of the last one. *)
Within(a, b) ==
    \A i \in DOMAIN a :
        /\ i \in DOMAIN b
        /\ a[i].name = b[i].name /\ a[i].hash = b[i].hash
        /\ a[i].kind = "cloud" => b[i].kind = "cloud" /\ (a[i].url \in Urls => a[i].url = b[i].url)

LEMMA Prefix ==
    ASSUME NEW ps \in Seq(Profile), NEW k \in 0 .. Len(ps)
    PROVE  /\ SubSeq(ps, 1, k) \in Seq(Profile) /\ DOMAIN SubSeq(ps, 1, k) = 1 .. k
           /\ \A i \in 1 .. k : i \in DOMAIN ps /\ SubSeq(ps, 1, k)[i] = ps[i]
<1>0. Len(ps) \in Nat /\ DOMAIN ps = 1 .. Len(ps) /\ k \in Nat
    OBVIOUS
<1>1. \A i \in 1 .. k : ps[i] \in Profile
    BY <1>0
<1>2. /\ SubSeq(ps, 1, k) \in Seq(Profile)
      /\ Len(SubSeq(ps, 1, k)) = IF 1 <= k THEN k - 1 + 1 ELSE 0
      /\ \A i \in 1 .. k - 1 + 1 : SubSeq(ps, 1, k)[i] = ps[1 + i - 1]
    BY <1>0, <1>1, SubSeqProperties
<1>3. Len(SubSeq(ps, 1, k)) = k /\ \A i \in 1 .. k : SubSeq(ps, 1, k)[i] = ps[i]
    BY <1>0, <1>2
<1>4. DOMAIN SubSeq(ps, 1, k) = 1 .. k
    BY <1>2, <1>3
<1> QED
    BY <1>0, <1>2, <1>3, <1>4

LEMMA Replaced ==
    ASSUME NEW s \in Seq(Profile), NEW k \in DOMAIN s, NEW p \in Profile
    PROVE  /\ [s EXCEPT ![k] = p] \in Seq(Profile) /\ DOMAIN [s EXCEPT ![k] = p] = DOMAIN s
           /\ [s EXCEPT ![k] = p][k] = p
           /\ \A i \in DOMAIN s : i # k => [s EXCEPT ![k] = p][i] = s[i]
OBVIOUS

LEMMA TornEffect ==
    ASSUME NEW c \in Config, NEW x \in Torn(c)
    PROVE  x \in Config /\ Within(x.entries, c.entries)
<1>0. c.entries \in Seq(Profile) /\ c.default \in Name \cup {None}
    BY DEF Config
<1> DEFINE es == c.entries
           Cuts == {[kind |-> "local", url |-> None], [kind |-> "cloud", url |-> None], [kind |-> "cloud", url |-> Cut]}
           Tear(k, cut) == [SubSeq(es, 1, k) EXCEPT ![k].kind = cut.kind, ![k].url = cut.url]
<1>1. CASE x = [default |-> None, entries |-> <<>>]
    BY <1>1 DEF Config, Within
<1>2. ASSUME NEW k \in 0 .. Len(es) - 1, x = [default |-> c.default, entries |-> SubSeq(es, 1, k)]
      PROVE  x \in Config /\ Within(x.entries, c.entries)
    <2>0. k \in 0 .. Len(es)
        BY <1>0
    <2>1. /\ SubSeq(es, 1, k) \in Seq(Profile) /\ DOMAIN SubSeq(es, 1, k) = 1 .. k
          /\ \A i \in 1 .. k : i \in DOMAIN es /\ SubSeq(es, 1, k)[i] = es[i]
        BY <1>0, <2>0, Prefix
    <2>2. x \in Config /\ x.entries = SubSeq(es, 1, k)
        BY <1>0, <1>2, <2>1 DEF Config
    <2> QED
        BY <2>1, <2>2 DEF Within
<1>3. ASSUME NEW k \in DOMAIN es, es[k].kind = "cloud", NEW cut \in Cuts,
             x = [default |-> c.default, entries |-> Tear(k, cut)]
      PROVE  x \in Config /\ Within(x.entries, c.entries)
    <2>0. k \in 0 .. Len(es) /\ k \in 1 .. k
        BY <1>0
    <2>1. /\ SubSeq(es, 1, k) \in Seq(Profile) /\ DOMAIN SubSeq(es, 1, k) = 1 .. k
          /\ \A i \in 1 .. k : i \in DOMAIN es /\ SubSeq(es, 1, k)[i] = es[i]
        BY <1>0, <2>0, Prefix
    <2>2. PICK s \in Seq(Profile) : s = SubSeq(es, 1, k)
        BY <2>1
    <2>3. s[k] \in Profile /\ s[k] = es[k] /\ k \in DOMAIN s
        BY <2>0, <2>1, <2>2
    <2>4. cut.kind \in {"local", "cloud"} /\ cut.url \in {None, Cut}
        BY <1>3
    <2>5. PICK p : p = [s[k] EXCEPT !.kind = cut.kind, !.url = cut.url]
        OBVIOUS
    <2>6. p \in Profile /\ p.name = es[k].name /\ p.hash = es[k].hash /\ p.url \in {None, Cut}
        BY <2>3, <2>4, <2>5 DEF Profile, Link
    <2>7. Tear(k, cut) = [s EXCEPT ![k] = p]
        BY <2>2, <2>5
    <2>d. DOMAIN s = 1 .. k /\ \A i \in 1 .. k : s[i] = es[i]
        BY <2>1, <2>2
    <2>e. /\ [s EXCEPT ![k] = p] \in Seq(Profile) /\ DOMAIN [s EXCEPT ![k] = p] = DOMAIN s
          /\ [s EXCEPT ![k] = p][k] = p
          /\ \A i \in DOMAIN s : i # k => [s EXCEPT ![k] = p][i] = s[i]
        BY <2>2, <2>3, <2>6, Replaced
    <2>8. /\ [s EXCEPT ![k] = p] \in Seq(Profile) /\ DOMAIN [s EXCEPT ![k] = p] = 1 .. k
          /\ [s EXCEPT ![k] = p][k] = p
          /\ \A i \in 1 .. k : i # k => [s EXCEPT ![k] = p][i] = es[i]
        BY <2>d, <2>e
    <2>9. x \in Config /\ x.entries = [s EXCEPT ![k] = p]
        BY <1>0, <1>3, <2>7, <2>8 DEF Config
    <2>10. p.url \notin Urls
        BY <2>6, StoreAssumption
    <2> QED
        BY <1>3, <2>1, <2>6, <2>8, <2>9, <2>10 DEF Within
<1> HIDE DEF Tear
<1>4. \/ x = [default |-> None, entries |-> <<>>]
      \/ \E k \in 0 .. Len(es) - 1 : x = [default |-> c.default, entries |-> SubSeq(es, 1, k)]
      \/ \E k \in DOMAIN es : es[k].kind = "cloud" /\ \E cut \in Cuts : x = [default |-> c.default, entries |-> Tear(k, cut)]
    <2> DEFINE B == {[default |-> c.default, entries |-> SubSeq(es, 1, k)] : k \in 0 .. Len(es) - 1}
               C == UNION {{[default |-> c.default, entries |-> Tear(k, cut)] : cut \in Cuts} :
                           k \in {j \in DOMAIN es : es[j].kind = "cloud"}}
    <2>1. Torn(c) = {[default |-> None, entries |-> <<>>]} \cup B \cup C
        BY DEF Torn, Tear
    <2>2. x \in B => \E k \in 0 .. Len(es) - 1 : x = [default |-> c.default, entries |-> SubSeq(es, 1, k)]
        OBVIOUS
    <2>3. x \in C => \E k \in DOMAIN es : es[k].kind = "cloud" /\ \E cut \in Cuts : x = [default |-> c.default, entries |-> Tear(k, cut)]
        OBVIOUS
    <2> HIDE DEF B, C
    <2> QED
        BY <2>1, <2>2, <2>3
<1> QED
    BY <1>1, <1>2, <1>3, <1>4

LEMMA WithinHashes ==
    ASSUME NEW a \in Seq(Profile), NEW b \in Seq(Profile), Within(a, b)
    PROVE  Hashes(a) \subseteq Hashes(b)
BY HashesOf DEF Within

LEMMA WithinSourced ==
    ASSUME NEW a, NEW b, Within(a, b), NEW had, \A i \in DOMAIN b : FromUrl(b[i], had)
    PROVE  \A i \in DOMAIN a : FromUrl(a[i], had)
BY DEF Within, FromUrl

(* ProfileStore::save. *)
LEMMA ConfigStep ==
    ASSUME StoreInv, BeginConfig \/ EndConfig
    PROVE  StoreInv'
<1> USE DEF StoreInv, memory
<1>c. PICK c : c = [default |-> default, entries |-> profiles]
    OBVIOUS
<1>0. /\ todo # <<>> /\ todo \in Seq(Write) /\ 1 \in DOMAIN todo /\ Head(todo) = todo[1]
      /\ Is(1, "config")
      /\ UNCHANGED <<profiles, default, downloads, up, origin, files, failed, damaged>>
    <2>1. todo # <<>> /\ Head(todo).write = "config"
        BY DEF BeginConfig, EndConfig, Ordered
    <2> QED
        BY <2>1, Headed DEF TypeOK, BeginConfig, EndConfig, Is
<1>1. todo[1].config = c /\ c \in Config /\ c.entries = profiles /\ c.default = default /\ up
    BY <1>0, <1>c DEF Ordered, Is, TypeOK, Config
<1>2. ~failed => \A h \in Hashes(profiles) : Good(h)
    <2>1. \A i \in DOMAIN todo : i >= 1 /\ i \in Nat
        BY <1>0
    <2>2. \A h : ~Pending(h)
        BY <1>0, <2>1 DEF Pending, Ordered, Is
    <2> QED
        BY <1>1, <2>2 DEF OnDisk
<1>3. \A h : Good(h)' <=> Good(h)
    BY <1>0 DEF Good
<1>4. \A h : ~Writing(h)
    BY <1>0 DEF Writing, Is
<1>5. FilesKnown'
    BY <1>0, <1>3, <1>4 DEF FilesKnown
<1>6. HasDefault'
    BY <1>0 DEF HasDefault
<1>7. ASSUME config' \in Config, Within(config'.entries, profiles)
      PROVE  Sourced' /\ (~failed => \A h \in Hashes(config'.entries) : Good(h)')
    <2>1. profiles \in Seq(Profile) /\ config'.entries \in Seq(Profile)
        BY <1>7 DEF TypeOK, Config
    <2>2. Hashes(config'.entries) \subseteq Hashes(profiles)
        BY <1>7, <2>1, WithinHashes
    <2>3. \A i \in DOMAIN config'.entries : FromUrl(config'.entries[i], origin)
        BY <1>7, WithinSourced DEF Sourced
    <2> QED
        BY <1>0, <1>2, <1>3, <2>2, <2>3 DEF Sourced
<1>8. CASE BeginConfig
    <2>1. config' \in Torn(c) /\ begun' = TRUE /\ UNCHANGED todo
        BY <1>0, <1>1, <1>8 DEF BeginConfig
    <2>2. config' \in Config /\ Within(config'.entries, profiles)
        BY <1>1, <2>1, TornEffect
    <2>3. begun' \in BOOLEAN
        BY <2>1
    <2>4. TypeOK'
        BY <1>0, <2>1, <2>2, <2>3 DEF TypeOK
    <2>5. Ordered'
        BY <1>0, <2>1 DEF Ordered, Is
    <2>6. Listing'
        BY <1>0, <2>1 DEF Listing, Is
    <2>7. OnDisk'
        BY <1>0, <1>2, <1>3, <1>7, <2>2, <2>6 DEF OnDisk
    <2> QED
        BY <1>5, <1>6, <1>7, <2>2, <2>4, <2>5, <2>7
<1>9. CASE EndConfig
    <2>1. config' = c /\ todo' = Tail(todo) /\ begun' = FALSE
        BY <1>0, <1>1, <1>9 DEF EndConfig
    <2>2. config' \in Config /\ Within(config'.entries, profiles)
        BY <1>1, <2>1 DEF Within
    <2>3. Ordered' /\ todo' \in Seq(Write)
        BY <1>0, <2>1, NextWrite
    <2>4. begun' \in BOOLEAN
        BY <2>1
    <2>5. TypeOK'
        BY <1>0, <2>1, <2>2, <2>3, <2>4 DEF TypeOK
    <2>6. Load(config') = [default |-> default, entries |-> profiles]
        BY <1>1, <1>c, <2>1 DEF Load, HasDefault
    <2>7. OnDisk'
        BY <1>0, <1>2, <1>3, <1>7, <2>2, <2>6 DEF OnDisk
    <2> QED
        BY <1>5, <1>6, <1>7, <2>2, <2>3, <2>5, <2>7
<1> QED
    BY <1>8, <1>9

(* ContentStore::delete_if_unreferenced: the list without it is on disk by now. *)
LEMMA DeleteStep ==
    ASSUME StoreInv, DeleteContent
    PROVE  StoreInv'
<1> USE DEF StoreInv, memory
<1>0. /\ todo # <<>> /\ todo \in Seq(Write) /\ 1 \in DOMAIN todo /\ Head(todo) = todo[1]
      /\ Is(1, "delete")
      /\ UNCHANGED <<profiles, default, downloads, up, origin, config, begun, failed>>
    BY Headed DEF TypeOK, DeleteContent, Is
<1>h. PICK h : h = todo[1].hash
    OBVIOUS
<1>1. /\ files' = Without(files, h) /\ todo' = Tail(todo) /\ damaged' = damaged \ {h}
    BY <1>0, <1>h DEF DeleteContent
<1>2. begun' = FALSE /\ up
    BY <1>0 DEF Ordered, Is, TypeOK
<1>3. /\ Ordered' /\ todo' \in Seq(Write)
      /\ \A k : Pending(k) => Pending(k)'
    BY <1>0, <1>1, <1>2, NextWrite DEF Is
<1>4. /\ DOMAIN files' = DOMAIN files \ {h}
      /\ files' \in [DOMAIN files' -> {"whole", "torn"}]
      /\ \A k \in DOMAIN files : k # h => files'[k] = files[k]
    BY <1>1 DEF Without, TypeOK
<1>5. TypeOK'
    BY <1>0, <1>1, <1>3, <1>4 DEF TypeOK
<1>6. \A k : Good(k) /\ k # h => Good(k)'
    BY <1>1, <1>4 DEF Good
<1>7. FilesKnown'
    <2>1. \A k : ~Writing(k)
        BY <1>0 DEF Writing, Is
    <2> QED
        BY <1>4, <1>6, <2>1 DEF FilesKnown
<1>8. ~Listing /\ h \notin Hashes(profiles)
    <2>1. \A i \in DOMAIN todo : i >= 1 /\ i \in Nat
        BY <1>0
    <2> QED
        BY <1>0, <1>h, <2>1 DEF Listing, Ordered, Is
<1>9. OnDisk'
    <2>1. ~failed => Load(config) = [default |-> default, entries |-> profiles]
        BY <1>2, <1>8 DEF OnDisk
    <2>2. ~failed => config.entries = profiles
        BY <2>1 DEF Load
    <2>3. ~failed => \A k \in Hashes(config.entries) : Good(k)'
        BY <1>6, <1>8, <2>2 DEF OnDisk
    <2>4. ~failed => \A k \in Hashes(profiles) : Good(k)' \/ Pending(k)'
        BY <1>2, <1>3, <1>6, <1>8 DEF OnDisk
    <2> QED
        BY <1>0, <2>1, <2>3, <2>4 DEF OnDisk
<1> QED
    BY <1>0, <1>3, <1>5, <1>7, <1>9 DEF HasDefault, Sourced

(* A content whose write was begun is damaged when the write stops. *)
LEMMA StoppedKnown ==
    ASSUME StoreInv, todo' = <<>> \/ (todo # <<>> /\ todo' = Tail(todo)), begun' = FALSE,
           UNCHANGED files, damaged' = damaged \cup Stopped
    PROVE  FilesKnown' /\ damaged' \subseteq Hash /\ \A h : Good(h) => Good(h)'
<1> USE DEF StoreInv
<1>1. todo # <<>> => Head(todo) = todo[1] /\ todo[1] \in Write
    BY Headed DEF TypeOK
<1>2. \A h : Good(h) => Good(h)'
    BY DEF Good
<1>3. \A h : Writing(h) => h \in Stopped
    BY <1>1 DEF Writing, Is, Stopped
<1>4. Stopped \subseteq Hash
    BY <1>1, WriteFields DEF Stopped
<1>5. FilesKnown'
    <2>1. \A h \in DOMAIN files : Good(h)'
        BY <1>2, <1>3 DEF FilesKnown, Good
    <2> QED
        BY <2>1 DEF FilesKnown
<1> QED
    BY <1>2, <1>4, <1>5 DEF TypeOK

LEMMA StopStep ==
    ASSUME StoreInv, Fault \/ Crash
    PROVE  StoreInv'
<1> USE DEF StoreInv, memory
<1>0. HasDefault' /\ Sourced'
    BY DEF Fault, Crash, HasDefault, Sourced
<1>1. CASE Fault
    <2>1. /\ todo # <<>> /\ todo' = Tail(todo) /\ begun' = FALSE /\ failed' = TRUE
          /\ damaged' = damaged \cup Stopped
          /\ UNCHANGED <<profiles, default, downloads, up, config, files>>
        BY <1>1 DEF Fault
    <2>2. FilesKnown' /\ damaged' \subseteq Hash
        BY <2>1, StoppedKnown
    <2>3. Ordered' /\ todo' \in Seq(Write)
        BY <2>1, NextWrite
    <2>4. begun' \in BOOLEAN /\ failed' \in BOOLEAN /\ OnDisk'
        BY <2>1 DEF OnDisk
    <2>5. TypeOK'
        BY <2>1, <2>2, <2>3, <2>4 DEF TypeOK
    <2> QED
        BY <1>0, <2>2, <2>3, <2>4, <2>5
<1>2. CASE Crash
    <2>1. /\ todo' = <<>> /\ begun' = FALSE /\ up' = FALSE /\ downloads' = {}
          /\ damaged' = damaged \cup Stopped
          /\ UNCHANGED <<profiles, default, config, files, failed>>
        BY <1>2 DEF Crash
    <2>2. FilesKnown' /\ damaged' \subseteq Hash /\ \A h : Good(h) => Good(h)'
        BY <2>1, StoppedKnown
    <2>3. Ordered' /\ todo' \in Seq(Write)
        BY <2>1 DEF Ordered
    <2>4. begun' \in BOOLEAN /\ up' \in BOOLEAN
        BY <2>1
    <2>5. TypeOK'
        BY <2>1, <2>2, <2>3, <2>4 DEF TypeOK
    <2>6. OnDisk'
        BY <2>1, <2>2 DEF OnDisk
    <2> QED
        BY <1>0, <2>2, <2>3, <2>5, <2>6
<1> QED
    BY <1>1, <1>2

(* load_or_migrate: what is shown is what the file says. *)
LEMMA RestartStep ==
    ASSUME StoreInv, Start
    PROVE  StoreInv'
<1> USE DEF StoreInv
<1>0. /\ todo = <<>> /\ ~begun /\ up' = TRUE
      /\ profiles' = config.entries /\ default' = Load(config).default
      /\ UNCHANGED <<config, files, begun, failed, damaged, todo, downloads, origin>>
    BY DEF Start, disk, Ordered, Load
<1>1. config.entries \in Seq(Profile) /\ config.default \in Name \cup {None}
    BY DEF TypeOK, Config
<1>2. default' \in Name \cup {None} /\ (config.entries # <<>> => default' # None)
    <2>1. CASE config.default = None /\ config.entries # <<>>
        <3>1. 1 \in DOMAIN config.entries
            BY <1>1, <2>1
        <3>2. config.entries[1].name \in Name
            BY <1>1, <3>1, NamesTyped
        <3>3. default' = config.entries[1].name
            BY <1>0, <2>1 DEF Load
        <3> QED
            BY <3>2, <3>3, StoreAssumption
    <2>2. CASE ~(config.default = None /\ config.entries # <<>>)
        <3>1. default' = config.default
            BY <1>0, <2>2 DEF Load
        <3> QED
            BY <1>1, <2>2, <3>1
    <2> QED
        BY <2>1, <2>2
<1>3. up' \in BOOLEAN
    BY <1>0
<1>4. TypeOK'
    BY <1>0, <1>1, <1>2, <1>3 DEF TypeOK
<1>5. Ordered' /\ HasDefault'
    BY <1>0, <1>2 DEF Ordered, HasDefault
<1>6. \A h : Good(h)' <=> Good(h)
    BY <1>0 DEF Good
<1>7. FilesKnown'
    BY <1>0, <1>6 DEF FilesKnown, Writing
<1>8. Load(config') = [default |-> default', entries |-> profiles']
    BY <1>0 DEF Load
<1>9. OnDisk'
    BY <1>0, <1>6, <1>8 DEF OnDisk
<1>10. Sourced'
    BY <1>0 DEF Sourced
<1> QED
    BY <1>4, <1>5, <1>7, <1>9, <1>10

-------------------------------------------------------------------------------
(* The theorems.                                                               *)

LEMMA StoreStart ==
    ASSUME Init
    PROVE  StoreInv
<1>0. /\ profiles = <<>> /\ default = None /\ config = [default |-> None, entries |-> <<>>]
      /\ files = <<>> /\ todo = <<>> /\ begun = FALSE /\ downloads = {} /\ up = TRUE
      /\ failed = FALSE /\ damaged = {} /\ origin = {}
    BY DEF Init
<1>1. config \in Config /\ config.entries = <<>> /\ config.default = None
    BY <1>0 DEF Config
<1>2. DOMAIN files = {} /\ DOMAIN profiles = {} /\ DOMAIN config.entries = {} /\ files \in [DOMAIN files -> {"whole", "torn"}]
    BY <1>0, <1>1
<1>3. begun \in BOOLEAN /\ up \in BOOLEAN /\ failed \in BOOLEAN
    BY <1>0
<1>4. TypeOK
    BY <1>0, <1>1, <1>2, <1>3 DEF TypeOK
<1>5. Ordered /\ HasDefault
    BY <1>0 DEF Ordered, HasDefault
<1>6. FilesKnown
    BY <1>2 DEF FilesKnown
<1>7. Load(config) = [default |-> default, entries |-> profiles]
    BY <1>0 DEF Load
<1>8. Hashes(profiles) = {} /\ Hashes(config.entries) = {}
    BY <1>2 DEF Hashes
<1>9. OnDisk
    BY <1>7, <1>8 DEF OnDisk
<1>10. Sourced
    BY <1>0, <1>2 DEF Sourced
<1> QED
    BY <1>4, <1>5, <1>6, <1>9, <1>10 DEF StoreInv

(* The inductive invariant: the writes that are left come in an order in which the
   list on disk never names what is not there (config.rs:149-181, 259-425). *)
THEOREM StoreInvariant == Spec => []StoreInv
<1>1. Init => StoreInv
    BY StoreStart
<1>2. ASSUME StoreInv, [Next]_vars PROVE StoreInv'
    <2>1. CASE UNCHANGED vars
        <3>1. UNCHANGED <<profiles, default, config, files, todo, begun, up, failed, damaged, origin, downloads>>
            BY <2>1 DEF vars
        <3>2. /\ downloads' \subseteq [op : {"add", "update"}, name : Name, url : Link]
              /\ \A d \in downloads' : Rightful(d, origin)
            BY <1>2, <3>1 DEF StoreInv, TypeOK, Sourced
        <3> QED
            BY <1>2, <3>1, <3>2, DownloadStep
    <2> QED
        BY <1>2, <2>1, OperationStep, StartStep, RemoveStep, ContentStep, ConfigStep, DeleteStep, StopStep,
           RestartStep DEF Next
<1> QED
    BY <1>1, <1>2, PTL DEF Spec

(* Whatever operation the process dies in: while no write has failed, every profile
   config.yaml lists has its content on disk, whole or known to be cut short
   (add_cloud, update_cloud and remove in config.rs). *)
THEOREM StoreContentKept == Spec => []ContentKept
<1>1. StoreInv => ContentKept
    BY DEF StoreInv, OnDisk, ContentKept, Good
<1> QED
    BY <1>1, StoreInvariant, PTL

(* However downloads, switches, removals and restarts interleave, the content of a
   cloud profile came from a URL of its name (update_profile in main.rs). *)
THEOREM StoreContentFromUrl == Spec => []ContentFromUrl
<1>1. StoreInv => ContentFromUrl
    BY DEF StoreInv, Sourced, FromUrl, ContentFromUrl
<1> QED
    BY <1>1, StoreInvariant, PTL

(* Between operations a restart brings up what is shown (save and load_from_file). *)
THEOREM StoreSavedIsShown == Spec => []SavedIsShown
<1>1. StoreInv => SavedIsShown
    BY DEF StoreInv, OnDisk, SavedIsShown, Idle, Listing
<1> QED
    BY <1>1, StoreInvariant, PTL

===============================================================================
