--------------------------- MODULE ParamLinkProofs ---------------------------
EXTENDS ParamLink, ListsProofs
(***************************************************************************)
(* What ParamLink promises, for all parameters, names and pool sizes.      *)
(*                                                                         *)
(* IInv is inductive: AddedOnce (a parameter is in one chunk of each pool  *)
(* at most), Told (the interface's handle, the chunk's pending state and   *)
(* the plugin's parameters agree), Linked (a chunk that has not been told  *)
(* to disappear has the handle of the plugin's chunk), TreeIsInUse (the    *)
(* host's list against its chunks, by WithoutLeaves of ListsProofs) and    *)
(* QueueOK (the handle in a message is the one the interface holds, as     *)
(* long as the plugin has the parameter).  The other theorems are what it  *)
(* says of the parameter at which a change lands.                          *)
(***************************************************************************)

\* A parameter is added once: it is in one chunk of the plugin and in one chunk
\* of the host at most.
AddedOnce ==
  /\ Live \subseteq used
  /\ \A c, d \in PChunks : inChunk[c] = inChunk[d] /\ inChunk[c] # NoId => c = d
  /\ \A c \in HChunks : hstate[c] # "free" => hid[c] \in used
  /\ \A c, d \in HChunks :
       hstate[c] # "free" /\ hstate[d] # "free" /\ hid[c] = hid[d] => c = d

\* What the interface holds and what the host believes: a chunk that waits to
\* appear is of a parameter the plugin has and nobody has been told of, one that
\* waits to disappear is held, and one with nothing pending is held unless its
\* parameter was removed before it was told.
Told ==
  /\ \A c \in HChunks :
       /\ hstate[c] = "appear" => hid[c] \in Live /\ held[hid[c]] = NoChunk
       /\ hstate[c] = "disappear" => hid[c] \notin Live /\ held[hid[c]] = c
       /\ hstate[c] = "nothing" => held[hid[c]] = IF hid[c] \in Live THEN c ELSE NoChunk
  /\ \A p \in Ids : held[p] # NoChunk =>
       /\ p \in used /\ hid[held[p]] = p
       /\ hstate[held[p]] = "disappear" \/ (hstate[held[p]] = "nothing" /\ p \in Live)

\* The plugin's chunk of every parameter it has is the one the host calls.
Linked ==
  /\ \A p \in Live : \E c \in HChunks : hstate[c] \in {"appear", "nothing"} /\ hid[c] = p
  /\ \A c \in HChunks :
       hstate[c] \in {"appear", "nothing"} /\ hid[c] \in Live => inChunk[handle[c]] = hid[c]

\* A message that is queued has the handle the interface holds, as long as the
\* plugin has the parameter.
QueueOK ==
  \A i \in 1..Len(queue) : queue[i].kind = "change" =>
    /\ queue[i].for \in used
    /\ queue[i].for \in Live => held[queue[i].for] = queue[i].chunk

Core == AddedOnce /\ Told /\ Linked /\ TreeIsInUse
IInv == TypeOK /\ Core /\ QueueOK

----------------------------------------------------------------------------
\* TreeIsInUse in the words of the lemmas about lists.
LEMMA TreeIs ==
  ASSUME tree \in Seq(HChunks)
  PROVE  TreeIsInUse <=> /\ NoneTwice(tree)
                         /\ Entries(tree) = {c \in HChunks : hstate[c] # "free"}
<1>1. DOMAIN tree = 1..Len(tree)
  OBVIOUS
<1> QED BY <1>1 DEF TreeIsInUse, NoneTwice, Entries

\* At first there is nothing.
LEMMA InitInvariant == Init => IInv
<1> SUFFICES ASSUME Init PROVE IInv
  OBVIOUS
<1> USE LinkAssumption DEF Init
<1>1. TypeOK
  <2>1. (CHOOSE n \in Names : TRUE) \in Names /\ (CHOOSE p \in Ids : TRUE) \in Ids
        /\ (CHOOSE c \in PChunks : TRUE) \in PChunks
    OBVIOUS
  <2> QED BY <2>1 DEF TypeOK, HostStates, Landings
<1>2. Live = {} /\ \A c \in HChunks : hstate[c] = "free"
  BY DEF Live
<1>3. TreeIsInUse
  BY <1>2 DEF TreeIsInUse
<1>4. AddedOnce /\ Told /\ Linked
  BY <1>2 DEF AddedOnce, Told, Linked
<1>5. QueueOK
  BY DEF QueueOK
<1> QED BY <1>1, <1>3, <1>4, <1>5 DEF IInv, Core

\* What the steps of the other kinds leave alone.
LEMMA CoreStays ==
  ASSUME Core, UNCHANGED <<pluginVars, hostVars, held>>
  PROVE  Core'
BY DEF Core, AddedOnce, Told, Linked, TreeIsInUse, Live, pluginVars, hostVars

----------------------------------------------------------------------------
(* The plugin. *)

\* A parameter that is added is new to both libraries and to the interface.
LEMMA AddInvariant ==
  ASSUME IInv, NEW p \in Ids, NEW n \in Names, NEW pc \in PChunks, NEW hc \in HChunks,
         ParamAdd(p, n, pc, hc)
  PROVE  IInv'
<1> USE LinkAssumption DEF IInv, Core, ParamAdd, NewHandle
<1>1. TypeOK'
  BY DEF TypeOK, HostStates
<1>2. Live' = Live \cup {p} /\ p \notin Live /\ Live \subseteq Ids
  BY DEF TypeOK, Live, AddedOnce
<1>3. held[p] = NoChunk
  BY DEF Told
<1>4. AddedOnce'
  <2>1. Live' \subseteq used'
    BY <1>2 DEF AddedOnce
  <2>2. \A c, d \in PChunks : inChunk'[c] = inChunk'[d] /\ inChunk'[c] # NoId => c = d
    BY DEF AddedOnce, Live, TypeOK
  <2>3. /\ \A c \in HChunks : hstate'[c] # "free" => hid'[c] \in used'
        /\ \A c, d \in HChunks :
             hstate'[c] # "free" /\ hstate'[d] # "free" /\ hid'[c] = hid'[d] => c = d
    BY DEF AddedOnce, TypeOK
  <2> QED BY <2>1, <2>2, <2>3 DEF AddedOnce
<1>5. Told'
  <2>1. ASSUME NEW c \in HChunks
        PROVE  /\ hstate'[c] = "appear" => hid'[c] \in Live' /\ held'[hid'[c]] = NoChunk
               /\ hstate'[c] = "disappear" => hid'[c] \notin Live' /\ held'[hid'[c]] = c
               /\ hstate'[c] = "nothing" =>
                    held'[hid'[c]] = IF hid'[c] \in Live' THEN c ELSE NoChunk
    <3>1. CASE c = hc
      BY <1>2, <1>3, <3>1 DEF TypeOK
    <3>2. CASE c # hc
      <4>1. hstate'[c] = hstate[c] /\ hid'[c] = hid[c] /\ held' = held
        BY <3>2 DEF TypeOK
      <4>2. hstate[c] # "free" => hid[c] # p
        BY DEF AddedOnce
      <4> QED BY <1>2, <4>1, <4>2 DEF Told
    <3> QED BY <3>1, <3>2
  <2>2. ASSUME NEW q \in Ids, held'[q] # NoChunk
        PROVE  /\ q \in used' /\ hid'[held'[q]] = q
               /\ hstate'[held'[q]] = "disappear" \/ (hstate'[held'[q]] = "nothing" /\ q \in Live')
    <3>1. held[q] # NoChunk /\ held' = held /\ held[q] \in HChunks
      BY <2>2 DEF TypeOK
    <3>2. hstate[held[q]] # "free"
      BY <3>1 DEF Told
    <3>3. hstate'[held[q]] = hstate[held[q]] /\ hid'[held[q]] = hid[held[q]]
      BY <3>1, <3>2 DEF TypeOK
    <3> QED BY <1>2, <3>1, <3>3 DEF Told
  <2> QED BY <2>1, <2>2 DEF Told
<1>6. Linked'
  <2>1. ASSUME NEW q \in Live'
        PROVE  \E c \in HChunks : hstate'[c] \in {"appear", "nothing"} /\ hid'[c] = q
    <3>1. CASE q = p
      BY <3>1 DEF TypeOK
    <3>2. CASE q # p
      <4>1. PICK c \in HChunks : hstate[c] \in {"appear", "nothing"} /\ hid[c] = q
        BY <1>2, <3>2 DEF Linked
      <4>2. c # hc
        BY <4>1
      <4>3. hstate'[c] = hstate[c] /\ hid'[c] = hid[c]
        BY <4>2 DEF TypeOK
      <4> QED BY <4>1, <4>3
    <3> QED BY <3>1, <3>2
  <2>2. ASSUME NEW c \in HChunks, hstate'[c] \in {"appear", "nothing"}, hid'[c] \in Live'
        PROVE  inChunk'[handle'[c]] = hid'[c]
    <3>1. CASE c = hc
      BY <3>1 DEF TypeOK
    <3>2. CASE c # hc
      <4>1. hstate'[c] = hstate[c] /\ hid'[c] = hid[c] /\ handle'[c] = handle[c]
        BY <3>2 DEF TypeOK
      <4>2. hid[c] # p
        BY <2>2, <4>1 DEF AddedOnce
      <4>3. hid[c] \in Live
        BY <1>2, <2>2, <4>1, <4>2
      <4>4. inChunk[handle[c]] = hid[c] /\ hid[c] # NoId
        BY <2>2, <4>1, <4>3 DEF Linked, Live
      <4>5. handle[c] # pc
        BY <4>4
      <4> QED BY <4>1, <4>4, <4>5 DEF TypeOK
    <3> QED BY <3>1, <3>2
  <2> QED BY <2>1, <2>2 DEF Linked
<1>7. TreeIsInUse'
  <2>1. /\ tree \in Seq(HChunks) /\ NoneTwice(tree)
        /\ Entries(tree) = {c \in HChunks : hstate[c] # "free"}
    BY TreeIs DEF TypeOK
  <2>2. hc \notin Entries(tree)
    BY <2>1
  <2>3. /\ tree' \in Seq(HChunks) /\ Len(tree') = Len(tree) + 1
        /\ \A i \in 1..Len(tree) : tree'[i] = tree[i]
        /\ tree'[Len(tree) + 1] = hc /\ Len(tree) \in Nat
    BY <2>1
  <2>4. NoneTwice(tree')
    BY <2>1, <2>2, <2>3 DEF NoneTwice, Entries
  <2>5. Entries(tree') = Entries(tree) \cup {hc}
    BY <2>3 DEF Entries
  <2>6. Entries(tree') = {c \in HChunks : hstate'[c] # "free"}
    BY <2>1, <2>5 DEF TypeOK
  <2>7. DOMAIN tree' = 1..Len(tree')
    BY <2>3
  <2> QED BY <2>4, <2>6, <2>7 DEF TreeIsInUse, NoneTwice, Entries
<1>8. QueueOK'
  BY <1>2 DEF QueueOK
<1> QED BY <1>1, <1>4, <1>5, <1>6, <1>7, <1>8

\* A parameter that is removed leaves the interface's handle as it was.
LEMMA RemoveInvariant ==
  ASSUME IInv, NEW pc \in PChunks, NEW hc \in HChunks, ParamRemove(pc, hc)
  PROVE  IInv'
<1> USE LinkAssumption DEF IInv, Core, ParamRemove, AfterRemoval
<1>1. TypeOK'
  BY DEF TypeOK, HostStates
<1> DEFINE p == inChunk[pc]
<1>2. p \in Live /\ Live' = Live \ {p}
  BY DEF TypeOK, Live, AddedOnce
<1>3. hid[hc] = p /\ hid' = hid /\ held' = held /\ used' = used /\ handle' = handle
  BY DEF TypeOK
<1>4. /\ hstate'[hc] \in {"nothing", "disappear"}
      /\ hstate[hc] = "appear" => hstate'[hc] = "nothing"
      /\ hstate[hc] = "nothing" => hstate'[hc] = "disappear"
      /\ \A c \in HChunks : c # hc => hstate'[c] = hstate[c] /\ (hstate[c] # "free" => hid[c] # p)
  BY DEF AddedOnce, TypeOK
<1>5. hstate[hc] \in {"appear", "nothing"}
  OBVIOUS
<1> HIDE DEF p
<1>6. AddedOnce'
  <2>1. \A c, d \in PChunks : inChunk'[c] = inChunk'[d] /\ inChunk'[c] # NoId => c = d
    BY DEF AddedOnce, TypeOK
  <2> QED BY <1>2, <1>3, <1>4, <1>5, <2>1 DEF AddedOnce
<1>7. Told'
  <2>1. ASSUME NEW c \in HChunks
        PROVE  /\ hstate'[c] = "appear" => hid'[c] \in Live' /\ held'[hid'[c]] = NoChunk
               /\ hstate'[c] = "disappear" => hid'[c] \notin Live' /\ held'[hid'[c]] = c
               /\ hstate'[c] = "nothing" =>
                    held'[hid'[c]] = IF hid'[c] \in Live' THEN c ELSE NoChunk
    <3>1. CASE c = hc
      BY <1>2, <1>3, <1>4, <1>5, <3>1 DEF Told
    <3>2. CASE c # hc
      BY <1>2, <1>3, <1>4, <3>2 DEF Told
    <3> QED BY <3>1, <3>2
  <2>2. ASSUME NEW q \in Ids, held'[q] # NoChunk
        PROVE  /\ q \in used' /\ hid'[held'[q]] = q
               /\ hstate'[held'[q]] = "disappear" \/ (hstate'[held'[q]] = "nothing" /\ q \in Live')
    <3>1. held[q] \in HChunks /\ held[q] # NoChunk
      BY <1>3, <2>2 DEF TypeOK
    <3>2. /\ q \in used /\ hid[held[q]] = q
          /\ hstate[held[q]] = "disappear" \/ (hstate[held[q]] = "nothing" /\ q \in Live)
      BY <3>1 DEF Told
    <3>3. CASE held[q] = hc
      BY <1>2, <1>3, <1>4, <1>5, <3>2, <3>3
    <3>4. CASE held[q] # hc
      <4>1. q # p
        BY <1>4, <3>1, <3>2, <3>4
      <4> QED BY <1>2, <1>3, <1>4, <3>1, <3>2, <3>4, <4>1
    <3> QED BY <3>3, <3>4
  <2> QED BY <2>1, <2>2 DEF Told
<1>8. Linked'
  <2>1. ASSUME NEW q \in Live'
        PROVE  \E c \in HChunks : hstate'[c] \in {"appear", "nothing"} /\ hid'[c] = q
    <3>1. q \in Live /\ q # p
      BY <1>2
    <3>2. PICK c \in HChunks : hstate[c] \in {"appear", "nothing"} /\ hid[c] = q
      BY <3>1 DEF Linked
    <3>3. c # hc
      BY <1>3, <3>1, <3>2
    <3> QED BY <1>3, <1>4, <3>2, <3>3
  <2>2. ASSUME NEW c \in HChunks, hstate'[c] \in {"appear", "nothing"}, hid'[c] \in Live'
        PROVE  inChunk'[handle'[c]] = hid'[c]
    <3>1. hid[c] \in Live /\ hid[c] # p
      BY <1>2, <1>3, <2>2
    <3>2. c # hc
      BY <1>3, <3>1
    <3>3. inChunk[handle[c]] = hid[c]
      BY <1>4, <2>2, <3>1, <3>2 DEF Linked
    <3>4. handle[c] # pc
      BY <3>1, <3>3 DEF p
    <3> QED BY <1>3, <3>3, <3>4 DEF TypeOK
  <2> QED BY <2>1, <2>2 DEF Linked
<1>9. TreeIsInUse'
  <2>1. \A c \in HChunks : hstate'[c] # "free" <=> hstate[c] # "free"
    BY <1>4, <1>5
  <2> QED BY <2>1 DEF TreeIsInUse
<1>10. QueueOK'
  BY <1>2, <1>3 DEF QueueOK
<1> QED BY <1>1, <1>6, <1>7, <1>8, <1>9, <1>10

----------------------------------------------------------------------------
(* The interface. *)

\* One ui_run tells everything that is pending, and the handles it gives out and
\* takes back are those of the parameters concerned.
LEMMA UiRunInvariant == ASSUME IInv, UiRun PROVE IInv'
<1> USE LinkAssumption DEF IInv, Core
<1> DEFINE gone == {c \in HChunks : hstate[c] = "disappear"}
           new == {c \in HChunks : hstate[c] = "appear"}
<1>1. /\ hstate' = [c \in HChunks |-> IF c \in gone THEN "free"
                                     ELSE IF c \in new THEN "nothing" ELSE hstate[c]]
      /\ held' = [p \in Ids |->
           IF \E c \in new : hid[c] = p THEN ToldHandle(new, p)
           ELSE IF \E c \in gone : hid[c] = p THEN NoChunk ELSE held[p]]
      /\ tree' = Without(tree, gone)
      /\ UNCHANGED <<rt, pluginVars, hid, handle, queue, landed>>
  BY DEF UiRun, GoneUnlinked
<1>2. Live' = Live
  BY <1>1 DEF Live, pluginVars
<1>3. \A c, d \in HChunks :
        hstate[c] # "free" /\ hstate[d] # "free" /\ hid[c] = hid[d] => c = d
  BY DEF AddedOnce
\* The handles after the walk.
<1>4. ASSUME NEW c \in HChunks, hstate[c] = "appear" PROVE held'[hid[c]] = c
  <2>1. c \in new /\ hid[c] \in Ids
    BY <1>4 DEF TypeOK
  <2>2. held'[hid[c]] = ToldHandle(new, hid[c])
    BY <1>1, <2>1
  <2>3. ToldHandle(new, hid[c]) \in new /\ hid[ToldHandle(new, hid[c])] = hid[c]
    BY <2>1 DEF ToldHandle
  <2> QED BY <1>3, <1>4, <2>1, <2>2, <2>3
<1>5. ASSUME NEW c \in HChunks, hstate[c] = "disappear" PROVE held'[hid[c]] = NoChunk
  <2>1. c \in gone /\ hid[c] \in Ids
    BY <1>5 DEF TypeOK
  <2>2. ~ \E d \in new : hid[d] = hid[c]
    BY <1>3, <1>5
  <2> QED BY <1>1, <2>1, <2>2
<1>6. ASSUME NEW c \in HChunks, hstate[c] = "nothing" PROVE held'[hid[c]] = held[hid[c]]
  <2>1. hid[c] \in Ids
    BY DEF TypeOK
  <2>2. ~ \E d \in new \cup gone : hid[d] = hid[c]
    BY <1>3, <1>6
  <2> QED BY <1>1, <2>1, <2>2
<1>7. ASSUME NEW p \in Ids
      PROVE  \/ \E c \in HChunks : hstate[c] \in {"appear", "disappear"} /\ hid[c] = p
             \/ held'[p] = held[p]
  BY <1>1
<1>8. \A c \in HChunks : /\ hstate[c] = "free" => hstate'[c] = "free"
                         /\ hstate[c] = "disappear" => hstate'[c] = "free"
                         /\ hstate[c] \in {"appear", "nothing"} => hstate'[c] = "nothing"
  BY <1>1
<1>9. \A c \in HChunks : hstate[c] \in {"free", "appear", "nothing", "disappear"}
  BY DEF TypeOK, HostStates
<1>10. hid' = hid /\ handle' = handle /\ inChunk' = inChunk /\ used' = used /\ name' = name
       /\ queue' = queue /\ rt' = rt /\ landed' = landed
  BY <1>1 DEF pluginVars
<1>11. tree' \in Seq(HChunks) /\ Entries(tree') = Entries(tree) \ gone
       /\ (NoneTwice(tree) => NoneTwice(tree'))
  BY <1>1, WithoutLeaves DEF TypeOK
<1>12. TypeOK'
  <2>1. held' \in [Ids -> HChunks \cup {NoChunk}]
    <3>1. \A p \in Ids : held'[p] \in HChunks \cup {NoChunk}
      <4> TAKE p \in Ids
      <4>1. CASE \E c \in HChunks : hstate[c] \in {"appear", "disappear"} /\ hid[c] = p
        BY <1>4, <1>5, <4>1
      <4>2. CASE held'[p] = held[p]
        BY <4>2 DEF TypeOK
      <4> QED BY <1>7, <4>1, <4>2
    <3>2. held' = [p \in Ids |-> held'[p]]
      BY <1>1
    <3> QED BY <3>1, <3>2
  <2>2. hstate' \in [HChunks -> HostStates]
    BY <1>1, <1>9 DEF HostStates
  <2> HIDE DEF gone, new
  <2> QED BY <1>10, <1>11, <2>1, <2>2 DEF TypeOK
<1> HIDE DEF gone, new
<1>13. AddedOnce'
  BY <1>2, <1>8, <1>9, <1>10 DEF AddedOnce
<1>14. Told'
  <2>1. ASSUME NEW c \in HChunks
        PROVE  /\ hstate'[c] \notin {"appear", "disappear"}
               /\ hstate'[c] = "nothing" =>
                    held'[hid[c]] = IF hid[c] \in Live THEN c ELSE NoChunk
    BY <1>4, <1>6, <1>8, <1>9 DEF Told
  <2>2. ASSUME NEW q \in Ids, held'[q] # NoChunk
        PROVE  q \in used /\ hid[held'[q]] = q /\ hstate'[held'[q]] = "nothing" /\ q \in Live
    <3>1. CASE \E c \in HChunks : hstate[c] \in {"appear", "disappear"} /\ hid[c] = q
      <4>1. PICK c \in HChunks : hstate[c] \in {"appear", "disappear"} /\ hid[c] = q
        BY <3>1
      <4>2. hstate[c] = "appear" /\ held'[q] = c
        BY <1>4, <1>5, <2>2, <4>1
      <4> QED BY <1>8, <4>1, <4>2 DEF Told, AddedOnce
    <3>2. CASE ~ \E c \in HChunks : hstate[c] \in {"appear", "disappear"} /\ hid[c] = q
      <4>1. held'[q] = held[q] /\ held[q] \in HChunks
        BY <1>7, <2>2, <3>2 DEF TypeOK
      <4>2. /\ q \in used /\ hid[held[q]] = q
            /\ hstate[held[q]] = "disappear" \/ (hstate[held[q]] = "nothing" /\ q \in Live)
        BY <2>2, <4>1 DEF Told
      <4>3. hstate[held[q]] = "nothing"
        BY <3>2, <4>1, <4>2
      <4> QED BY <1>8, <4>1, <4>2, <4>3
    <3> QED BY <3>1, <3>2
  <2> QED BY <1>2, <1>10, <2>1, <2>2 DEF Told
<1>15. Linked'
  <2>1. ASSUME NEW q \in Live
        PROVE  \E c \in HChunks : hstate'[c] \in {"appear", "nothing"} /\ hid[c] = q
    BY <1>8 DEF Linked
  <2>2. ASSUME NEW c \in HChunks, hstate'[c] \in {"appear", "nothing"}, hid[c] \in Live
        PROVE  inChunk[handle[c]] = hid[c]
    BY <1>8, <1>9, <2>2 DEF Linked
  <2> QED BY <1>2, <1>10, <2>1, <2>2 DEF Linked
<1>16. TreeIsInUse'
  <2>1. NoneTwice(tree) /\ Entries(tree) = {c \in HChunks : hstate[c] # "free"}
    BY TreeIs DEF TypeOK
  <2>2. NoneTwice(tree')
    BY <1>11, <2>1
  <2>3. Entries(tree') = {c \in HChunks : hstate'[c] # "free"}
    BY <1>8, <1>9, <1>11, <2>1 DEF gone
  <2>4. DOMAIN tree' = 1..Len(tree')
    BY <1>11
  <2> QED BY <2>2, <2>3, <2>4 DEF TreeIsInUse, NoneTwice, Entries
<1>17. QueueOK'
  <2> SUFFICES ASSUME NEW i \in 1..Len(queue), queue[i].kind = "change"
               PROVE  /\ queue[i].for \in used
                      /\ queue[i].for \in Live => held'[queue[i].for] = queue[i].chunk
    BY <1>2, <1>10 DEF QueueOK
  <2> DEFINE p == queue[i].for
  <2>1. p \in used /\ (p \in Live => held[p] = queue[i].chunk) /\ p \in Ids
        /\ queue[i].chunk \in HChunks
    BY DEF QueueOK, TypeOK, Messages
  <2> HIDE DEF p
  <2>2. ASSUME p \in Live PROVE held'[p] = held[p]
    <3>1. held[p] \in HChunks /\ held[p] # NoChunk
      BY <2>1, <2>2
    <3>2. hid[held[p]] = p /\ hstate[held[p]] \in {"disappear", "nothing"}
      BY <2>1, <3>1 DEF Told
    <3>3. hstate[held[p]] = "nothing"
      BY <2>2, <3>1, <3>2 DEF Told
    <3> QED BY <1>6, <3>1, <3>2, <3>3
  <2> QED BY <2>1, <2>2 DEF p
<1> QED BY <1>12, <1>13, <1>14, <1>15, <1>16, <1>17

\* A change and a set message carry what the interface knows.
LEMMA QueueInvariant ==
  ASSUME IInv, (\E p \in Ids : Change(p)) \/ \E n \in Names : Set(n)
  PROVE  IInv'
<1> USE LinkAssumption DEF IInv
<1>1. ASSUME NEW p \in Ids, Change(p) PROVE IInv'
  <2> DEFINE m == [kind |-> "change", chunk |-> held[p], for |-> p]
  <2>1. /\ queue' = Append(queue, m) /\ held[p] # NoChunk
        /\ UNCHANGED <<rt, pluginVars, hostVars, held, landed>>
    BY <1>1 DEF Change, OnScreen
  <2>2. held[p] \in HChunks /\ m \in Messages /\ p \in used
    BY <2>1 DEF TypeOK, Messages, Core, Told
  <2>3. TypeOK'
    BY <2>1, <2>2 DEF TypeOK, pluginVars, hostVars
  <2>4. Core'
    BY <2>1, CoreStays
  <2>5. QueueOK'
    <3>1. Live' = Live /\ held' = held /\ used' = used
      BY <2>1 DEF Live, pluginVars
    <3>2. /\ Len(queue') = Len(queue) + 1 /\ Len(queue) \in Nat
          /\ \A i \in 1..Len(queue) : queue'[i] = queue[i]
          /\ queue'[Len(queue) + 1] = m
      BY <2>1, <2>2 DEF TypeOK
    <3>3. m.for = p /\ m.chunk = held[p]
      OBVIOUS
    <3> HIDE DEF m
    <3> QED BY <2>2, <3>1, <3>2, <3>3 DEF QueueOK
  <2> QED BY <2>3, <2>4, <2>5
<1>2. ASSUME NEW n \in Names, Set(n) PROVE IInv'
  <2> DEFINE m == [kind |-> "set", name |-> n]
  <2>1. /\ queue' = Append(queue, m)
        /\ UNCHANGED <<rt, pluginVars, hostVars, held, landed>>
    BY <1>2 DEF Set
  <2>2. m \in Messages /\ m.kind = "set"
    BY DEF Messages
  <2>3. TypeOK'
    BY <2>1, <2>2 DEF TypeOK, pluginVars, hostVars
  <2>4. Core'
    BY <2>1, CoreStays
  <2>5. QueueOK'
    <3>1. Live' = Live /\ held' = held /\ used' = used
      BY <2>1 DEF Live, pluginVars
    <3>2. /\ Len(queue') = Len(queue) + 1 /\ Len(queue) \in Nat
          /\ \A i \in 1..Len(queue) : queue'[i] = queue[i]
          /\ queue'[Len(queue) + 1] = m
      BY <2>1, <2>2 DEF TypeOK
    <3> HIDE DEF m
    <3> QED BY <2>2, <3>1, <3>2 DEF QueueOK
  <2> QED BY <2>3, <2>4, <2>5
<1> QED BY <1>1, <1>2

----------------------------------------------------------------------------
(* The realtime thread. *)

\* Taking a message from the queue, or none, leaves those behind it as they are.
LEMMA DrainInvariant ==
  ASSUME IInv, UNCHANGED <<pluginVars, hostVars, held>>,
         queue' = queue \/ (queue # <<>> /\ queue' = Tail(queue)),
         rt' \in {"attach", "idle", "drain", "callback"},
         landed' \in [Calls -> Landings]
  PROVE  IInv'
<1> USE DEF IInv
<1>1. queue' \in Seq(Messages)
  <2>1. queue \in Seq(Messages)
    BY DEF TypeOK
  <2>2. \A q \in Seq(Messages) : q # <<>> => Tail(q) \in Seq(Messages)
    OBVIOUS
  <2> QED BY <2>1, <2>2
<1>2. TypeOK'
  BY <1>1 DEF TypeOK, pluginVars, hostVars
<1>3. Core'
  BY CoreStays
<1>4. QueueOK'
  <2>1. Live' = Live /\ held' = held /\ used' = used
    BY DEF Live, pluginVars
  <2>2. CASE queue' = queue
    BY <2>1, <2>2 DEF QueueOK
  <2>3. CASE queue # <<>> /\ queue' = Tail(queue)
    <3>1. Len(queue') = Len(queue) - 1 /\ Len(queue) \in Nat
          /\ \A i \in 1..(Len(queue) - 1) : queue'[i] = queue[i + 1]
      BY <2>3 DEF TypeOK
    <3>2. \A i \in 1..Len(queue') : i + 1 \in 1..Len(queue) /\ queue'[i] = queue[i + 1]
      BY <3>1
    <3> QED BY <2>1, <3>2 DEF QueueOK
  <2> QED BY <2>2, <2>3
<1> QED BY <1>2, <1>3, <1>4

\* Every landing is one of the four.
LEMMA LandType ==
  ASSUME TypeOK, NEW call \in Calls, NEW c, NEW meant, Land(call, c, meant)
  PROVE  rt' = "callback" /\ landed' \in [Calls -> Landings]
BY DEF TypeOK, Land, Landings

\* Every step keeps the invariant.
LEMMA StepInvariant == IInv /\ [Next]_vars => IInv'
<1> SUFFICES ASSUME IInv, [Next]_vars PROVE IInv'
  OBVIOUS
<1>1. TypeOK
  BY DEF IInv
<1>2. CASE PluginReturns
  BY <1>1, <1>2, DrainInvariant DEF PluginReturns, TypeOK
<1>3. CASE RealtimeEnter
  BY <1>1, <1>3, DrainInvariant DEF RealtimeEnter, TypeOK
<1>4. CASE RealtimeChange
  <2>1. Land("change", Head(queue).chunk, {Head(queue).for}) /\ "change" \in Calls
    BY <1>4 DEF RealtimeChange, Calls
  <2>2. rt' = "callback" /\ landed' \in [Calls -> Landings]
    BY <1>1, <2>1, LandType
  <2> QED BY <1>4, <2>2, DrainInvariant DEF RealtimeChange
<1>5. CASE RealtimeSet
  <2>1. rt' \in {"attach", "idle", "drain", "callback"} /\ landed' \in [Calls -> Landings]
    <3> DEFINE n == Head(queue).name
    <3>1. CASE Named(n) # {}
      <4>1. Land("set", Found(n), {p \in Ids : name[p] = n}) /\ "set" \in Calls
        BY <1>5, <3>1 DEF RealtimeSet, Calls
      <4> QED BY <1>1, <4>1, LandType
    <3>2. CASE Named(n) = {}
      BY <1>1, <1>5, <3>2 DEF RealtimeSet, TypeOK
    <3> QED BY <3>1, <3>2
  <2> QED BY <1>5, <2>1, DrainInvariant DEF RealtimeSet
<1>6. ASSUME NEW p \in Ids, ChangeRt(p) PROVE IInv'
  <2>1. Land("rt", held[p], {p}) /\ "rt" \in Calls
    BY <1>6 DEF ChangeRt, Calls
  <2>2. rt' = "callback" /\ landed' \in [Calls -> Landings]
    BY <1>1, <2>1, LandType
  <2> QED BY <1>6, <2>2, DrainInvariant DEF ChangeRt
<1>7. CASE UNCHANGED vars
  BY <1>1, <1>7, DrainInvariant DEF vars, TypeOK
<1> QED BY <1>2, <1>3, <1>4, <1>5, <1>6, <1>7, AddInvariant, RemoveInvariant,
           UiRunInvariant, QueueInvariant DEF Next

----------------------------------------------------------------------------
(* The theorems. *)

\* The inductive invariant, of the calls of both libraries that ParamLink has.
THEOREM LinkInvariant == Spec => []IInv
BY InitInvariant, StepInvariant, PTL DEF Spec

\* Type correctness.
THEOREM LinkTypeCorrect == Spec => []TypeOK
<1>1. IInv => TypeOK
  BY DEF IInv
<1> QED BY <1>1, LinkInvariant, PTL

\* The host library has one parameter for each of the plugin's, with a handle to
\* it, however often the chunks of both pools were handed out again.
THEOREM EachLinkedOnce == Spec => []LinkedOnce
<1>1. IInv => LinkedOnce
  <2> SUFFICES ASSUME IInv, NEW p \in Live
               PROVE  \E c \in HChunks :
                        /\ hstate[c] \in {"appear", "nothing"} /\ hid[c] = p /\ inChunk[handle[c]] = p
                        /\ \A d \in HChunks \ {c} : hstate[d] # "free" => hid[d] # p
    BY DEF LinkedOnce
  <2> USE DEF IInv, Core
  <2>1. PICK c \in HChunks : hstate[c] \in {"appear", "nothing"} /\ hid[c] = p
    BY DEF Linked
  <2>2. inChunk[handle[c]] = p
    BY <2>1 DEF Linked
  <2>3. \A d \in HChunks \ {c} : hstate[d] # "free" => hid[d] # p
    BY <2>1 DEF AddedOnce
  <2> QED BY <2>1, <2>2, <2>3
<1> QED BY <1>1, LinkInvariant, PTL

\* The handle the interface holds of a parameter is never stale: host.c frees the
\* chunk of a parameter only when it tells the interface that it has disappeared.
THEOREM HandleNeverStale == Spec => []HeldIsCurrent
<1>1. IInv => HeldIsCurrent
  BY DEF IInv, Core, Told, HeldIsCurrent
<1> QED BY <1>1, LinkInvariant, PTL

\* The host's list has each chunk in use once and none that is free, which the
\* searches by name of host.c rely on.
THEOREM ListIsInUse == Spec => []TreeIsInUse
<1>1. IInv => TreeIsInUse
  BY DEF IInv, Core
<1> QED BY <1>1, LinkInvariant, PTL

\* A change that is queued, or made by change_rt, reaches the parameter it is for if
\* the plugin still has it, whatever was removed and added since.
THEOREM ChangesReachTheLive == Spec => LiveIsReached
<1> DEFINE Reach == /\ RealtimeChange /\ Head(queue).for \in Live => landed'["change"] = "right"
                    /\ \A p \in Live : ChangeRt(p) => landed'["rt"] = "right"
\* Where a change goes that is for the chunk the interface holds.
<1>1. ASSUME IInv, NEW p \in Live, NEW c \in HChunks, held[p] = c PROVE Target(c) = p
  <2> USE LinkAssumption DEF IInv, Core
  <2>1. p \in Ids /\ c # NoChunk
    BY <1>1 DEF Live, TypeOK
  <2>2. hid[c] = p /\ hstate[c] = "nothing"
    BY <1>1, <2>1 DEF Told
  <2> QED BY <1>1, <2>2 DEF Linked, Target
<1>2. ASSUME IInv, NEW call \in Calls, NEW p \in Live, NEW c \in HChunks, held[p] = c,
             Land(call, c, {p})
      PROVE  landed'[call] = "right"
  <2>1. Target(c) = p /\ p # NoId
    BY <1>1, <1>2 DEF Live
  <2> QED BY <1>2, <2>1 DEF Land, IInv, TypeOK
<1>3. IInv => Reach
  <2> SUFFICES ASSUME IInv PROVE Reach
    OBVIOUS
  <2>1. ASSUME RealtimeChange, Head(queue).for \in Live PROVE landed'["change"] = "right"
    <3> DEFINE m == Head(queue)
    <3>1. /\ m = queue[1] /\ 1 \in 1..Len(queue) /\ m.kind = "change" /\ m \in Messages
          /\ Land("change", m.chunk, {m.for}) /\ "change" \in Calls
      BY <2>1 DEF RealtimeChange, IInv, TypeOK, Calls
    <3>2. m.chunk \in HChunks /\ held[m.for] = m.chunk
      BY <2>1, <3>1 DEF Messages, IInv, QueueOK
    <3> HIDE DEF m
    <3> QED BY <1>2, <2>1, <3>1, <3>2 DEF m
  <2>2. ASSUME NEW p \in Live, ChangeRt(p) PROVE landed'["rt"] = "right"
    <3>1. /\ held[p] \in HChunks /\ Land("rt", held[p], {p}) /\ "rt" \in Calls
      BY <2>2 DEF ChangeRt, OnScreen, IInv, TypeOK, Live, Calls
    <3> QED BY <1>2, <3>1
  <2> QED BY <2>1, <2>2
<1>4. IInv => [Reach]_vars
  BY <1>3
<1> HIDE DEF Reach
<1>5. Spec => [][Reach]_vars
  BY <1>4, LinkInvariant, PTL
<1> QED BY <1>5 DEF LiveIsReached, Reach

----------------------------------------------------------------------------
(* A plugin that removes nothing. *)

\* Every parameter that was added is still there, and every change has gone where
\* it was meant to.
Kept == used \subseteq Live /\ ChangeLands /\ RtLands /\ SetLands

\* A chunk in use then leads to the plugin's chunk of its parameter.
LEMMA TargetKept ==
  ASSUME IInv, used \subseteq Live, NEW c \in HChunks, hstate[c] # "free"
  PROVE  Target(c) = hid[c] /\ hid[c] \in Live /\ hid[c] # NoId
<1> USE DEF IInv, Core
<1>1. hid[c] \in Live
  BY DEF AddedOnce
<1>2. hstate[c] \in {"appear", "nothing"}
  BY <1>1 DEF Told, TypeOK, HostStates
<1>3. inChunk[handle[c]] = hid[c]
  BY <1>1, <1>2 DEF Linked
<1> QED BY <1>1, <1>3 DEF Target, Live

\* The parameter that find_parameter_asciizz finds has the name.
LEMMA FoundIsNamed ==
  ASSUME IInv, NEW n, Named(n) # {}
  PROVE  Found(n) \in HChunks /\ hstate[Found(n)] # "free" /\ name[hid[Found(n)]] = n
<1> USE DEF IInv, Core
<1>1. DOMAIN tree = 1..Len(tree) /\ tree \in Seq(HChunks)
  BY DEF TypeOK
<1>2. Named(n) \in SUBSET Nat
  BY <1>1 DEF Named
<1>3. PICK i \in Named(n) : \A j \in Named(n) : i <= j
  BY <1>2, LeastNumber
<1> DEFINE first == CHOOSE k \in Named(n) : \A j \in Named(n) : k <= j
<1>4. first \in Named(n)
  BY <1>3
<1>5. Found(n) = tree[first]
  BY DEF Found
<1> HIDE DEF first
<1>6. first \in DOMAIN tree /\ name[hid[tree[first]]] = n
  BY <1>4 DEF Named
<1>7. tree[first] \in {c \in HChunks : hstate[c] # "free"}
  BY <1>6 DEF TreeIsInUse
<1> QED BY <1>5, <1>6, <1>7

\* A message for a parameter that is still there lands there.
LEMMA KeptLanding ==
  ASSUME IInv, Kept, NEW call \in Calls, NEW c \in HChunks, hstate[c] # "free",
         NEW meant, hid[c] \in meant, Land(call, c, meant)
  PROVE  landed' = [landed EXCEPT ![call] = "right"]
<1>1. Target(c) = hid[c] /\ hid[c] # NoId
  BY TargetKept DEF Kept
<1> QED BY <1>1 DEF Land

\* As long as the plugin removes no parameter, every change from the screen, by
\* change_rt and by set_parameter goes to the parameter it was made for: a change
\* that strays (README.md, Further disagreements) needs a removal.
THEOREM NothingStraysWithoutRemovals ==
  ASSUME "removes" \notin Env
  PROVE  Spec => [](ChangeLands /\ RtLands /\ SetLands)
<1>1. Init => Kept
  <2> SUFFICES ASSUME Init PROVE Kept
    OBVIOUS
  <2>1. \A call \in Calls : landed[call] = "nowhere"
    BY DEF Init
  <2> QED BY <2>1 DEF Kept, Init, ChangeLands, RtLands, SetLands, Calls
<1>2. IInv /\ Kept /\ [Next]_vars => Kept'
  <2> SUFFICES ASSUME IInv, Kept, [Next]_vars PROVE Kept'
    OBVIOUS
  <2> DEFINE Lands(l) == \A call \in Calls : l[call] \in {"nowhere", "right"}
  <2>1. landed \in [Calls -> Landings] /\ Lands(landed)
    BY DEF IInv, TypeOK, Kept, ChangeLands, RtLands, SetLands, Calls
  <2>2. ASSUME used' = used, inChunk' = inChunk,
               landed' = landed \/ \E call \in Calls : landed' = [landed EXCEPT ![call] = "right"]
        PROVE  Kept'
    <3>1. Lands(landed')
      BY <2>1, <2>2
    <3>2. (ChangeLands /\ RtLands /\ SetLands)'
      BY <3>1 DEF ChangeLands, RtLands, SetLands, Calls
    <3> QED BY <2>2, <3>2 DEF Kept, Live
  <2>3. ASSUME NEW p \in Ids, NEW n \in Names, NEW pc \in PChunks, NEW hc \in HChunks,
               ParamAdd(p, n, pc, hc)
        PROVE  Kept'
    <3>1. used' = used \cup {p} /\ landed' = landed
      BY <2>3 DEF ParamAdd
    <3>2. Live' = Live \cup {p}
      BY <2>3, LinkAssumption DEF ParamAdd, Live, IInv, TypeOK
    <3> QED BY <3>1, <3>2 DEF Kept, ChangeLands, RtLands, SetLands
  <2>4. ASSUME NEW pc \in PChunks, NEW hc \in HChunks, ParamRemove(pc, hc) PROVE Kept'
    BY <2>4, "removes" \notin Env DEF ParamRemove
  <2>5. CASE PluginReturns \/ UiRun \/ RealtimeEnter \/ UNCHANGED vars
    BY <2>2, <2>5 DEF PluginReturns, UiRun, RealtimeEnter, vars, pluginVars
  <2>6. ASSUME NEW p \in Ids, Change(p) PROVE Kept'
    BY <2>2, <2>6 DEF Change, pluginVars
  <2>7. ASSUME NEW n \in Names, Set(n) PROVE Kept'
    BY <2>2, <2>7 DEF Set, pluginVars
  <2>8. ASSUME NEW p \in Ids, ChangeRt(p) PROVE Kept'
    <3>1. held[p] \in HChunks /\ hstate[held[p]] # "free" /\ hid[held[p]] = p
      BY <2>8 DEF ChangeRt, OnScreen, IInv, TypeOK, Core, Told
    <3>2. Land("rt", held[p], {p}) /\ "rt" \in Calls /\ used' = used /\ inChunk' = inChunk
      BY <2>8 DEF ChangeRt, Calls, pluginVars
    <3>3. landed' = [landed EXCEPT !["rt"] = "right"]
      BY <3>1, <3>2, KeptLanding
    <3> QED BY <2>2, <3>2, <3>3
  <2>9. CASE RealtimeChange
    <3> DEFINE m == Head(queue)
    <3>1. /\ m = queue[1] /\ 1 \in 1..Len(queue) /\ m.kind = "change" /\ m \in Messages
          /\ Land("change", m.chunk, {m.for}) /\ "change" \in Calls
          /\ used' = used /\ inChunk' = inChunk
      BY <2>9 DEF RealtimeChange, IInv, TypeOK, Calls, pluginVars
    <3>2. m.chunk \in HChunks /\ m.for \in Ids /\ held[m.for] = m.chunk
      BY <3>1 DEF Messages, IInv, QueueOK, Kept
    <3> HIDE DEF m
    <3>3. hstate[m.chunk] # "free" /\ hid[m.chunk] = m.for
      BY <3>2, LinkAssumption DEF IInv, Core, Told
    <3>4. landed' = [landed EXCEPT !["change"] = "right"]
      BY <3>1, <3>2, <3>3, KeptLanding
    <3> QED BY <2>2, <3>1, <3>4
  <2>10. CASE RealtimeSet
    <3> DEFINE n == Head(queue).name
               meant == {p \in Ids : name[p] = n}
    <3>1. "set" \in Calls /\ used' = used /\ inChunk' = inChunk
      BY <2>10 DEF RealtimeSet, Calls, pluginVars
    <3>2. CASE Named(n) # {}
      <4>1. Land("set", Found(n), meant)
        BY <2>10, <3>2 DEF RealtimeSet
      <4>2. Found(n) \in HChunks /\ hstate[Found(n)] # "free" /\ name[hid[Found(n)]] = n
        BY <3>2, FoundIsNamed
      <4>3. hid[Found(n)] \in meant
        BY <4>2 DEF IInv, TypeOK
      <4> HIDE DEF n, meant
      <4>4. landed' = [landed EXCEPT !["set"] = "right"]
        BY <3>1, <4>1, <4>2, <4>3, KeptLanding
      <4> QED BY <2>2, <3>1, <4>4
    <3>3. CASE Named(n) = {}
      BY <2>2, <2>10, <3>1, <3>3 DEF RealtimeSet
    <3> QED BY <3>2, <3>3
  <2> QED BY <2>3, <2>4, <2>5, <2>6, <2>7, <2>8, <2>9, <2>10 DEF Next
<1>3. Kept => ChangeLands /\ RtLands /\ SetLands
  BY DEF Kept
<1> QED BY <1>1, <1>2, <1>3, LinkInvariant, PTL DEF Spec
=============================================================================
