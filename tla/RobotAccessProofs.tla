-------------------------- MODULE RobotAccessProofs -------------------------
(***************************************************************************)
(* RobotAccess keeps IInv: the WAL entry names the robot Harbor has, by its*)
(* name, level and project, and what a rollback pass finds is that robot.  *)
(* From it follow the properties of what Harbor answers, for every role,   *)
(* name, credential and page size.  Each action has a lemma with one step  *)
(* per conjunct of IInv; those on names rest on RobotNamingProofs.         *)
(***************************************************************************)
EXTENDS RobotAccess, RobotNamingProofs, SequenceTheorems

-----------------------------------------------------------------------------
(* Roles and names                                                         *)

\* What names are joined with are characters.
LEMMA MarksAreChars ==
    /\ "$" \in Char /\ "+" \in Char /\ "-" \in Char
    /\ Alnum \union {".", "_", "-"} \subseteq Char
BY DEF Char, Marks

\* A role that validation let through has a first permission, which names where
\* the robot of a project-level role lives.
LEMMA FirstPermission ==
    ASSUME NEW r, r.perms \in WrittenPermissions, validateRole(r)
    PROVE  /\ 1 \in DOMAIN r.perms
           /\ r.perms[1] \in Permission
           /\ r.perms[1].namespace \in Namespace
           /\ r.level \in Levels
<1>1. r.perms \in Seq(Permission) /\ r.perms # <<>>
  BY AccessAssumption DEF validateRole
<1>2. Len(r.perms) \in Nat \ {0} /\ DOMAIN r.perms = 1..Len(r.perms)
  BY <1>1
<1>3. r.perms[1] \in Permission
  BY <1>1, <1>2
<1>4. r.level \in Levels
  BY DEF validateRole, KnownLevel
<1> QED BY <1>2, <1>3, <1>4 DEF Permission

\* Validation looks at the level and the permissions only.
LEMMA SameRole ==
    ASSUME NEW r, NEW s, validateRole(r), s.level = r.level, s.perms = r.perms
    PROVE  validateRole(s)
BY DEF validateRole

\* The bare suffix, robotName's last resort, is a name Harbor takes.
LEMMA SuffixIsName ==
    /\ Suffix \in Seq(Char)
    /\ HarborRobotName(Suffix)
<1>1. Suffix \in Seq(Alnum) /\ Suffix # <<>>
  BY AccessAssumption
<1>2. Suffix \in Seq(Char)
  BY <1>1 DEF Char
<1>3. Suffix \in Seq(Alnum \union {".", "_", "-"})
  BY <1>1, SeqMonotonic
<1>4. \A i \in DOMAIN Suffix : Suffix[i] \in Alnum
  BY <1>1
<1> QED BY <1>1, <1>2, <1>3, <1>4 DEF HarborRobotName

\* So is whatever robotName returns.
LEMMA NameIsSound ==
    ASSUME NEW prefix, NEW roleName
    PROVE  /\ robotName(prefix, roleName, Suffix) \in Seq(Char)
           /\ HarborRobotName(robotName(prefix, roleName, Suffix))
<1> DEFINE name == JoinedName(prefix, roleName, Suffix)
<1>1. CASE HarborRobotName(name)
  <2>1. name \in Seq(Alnum \union {".", "_", "-"})
    BY <1>1 DEF HarborRobotName
  <2>2. Alnum \union {".", "_", "-"} \subseteq Char
    BY MarksAreChars
  <2>3. name \in Seq(Char)
    <3> HIDE DEF name
    <3> QED BY <2>1, <2>2, SeqMonotonic
  <2> QED BY <1>1, <2>3 DEF robotName
<1>2. CASE ~HarborRobotName(name)
  BY <1>2, SuffixIsName DEF robotName
<1> QED BY <1>1, <1>2

\* What the WAL entry is made of.
LEMMA NameParts ==
    ASSUME TypeOK, entry # NoEntry
    PROVE  /\ entry.name \in Seq(Char) /\ HarborRobotName(entry.name)
           /\ entry.level \in Levels
           /\ entry.namespace \in Char
           /\ harborPrefix \in Seq(Char) /\ harborPrefix # <<>>
<1>1. entry \in Entry /\ HarborRobotName(entry.name)
  BY DEF TypeOK
<1>2. /\ entry.name \in Seq(Char)
      /\ entry.level \in Levels
      /\ entry.namespace \in Namespace
  BY <1>1 DEF Entry
<1>3. entry.namespace \in Char
  BY <1>2 DEF Char
<1>4. harborPrefix \in Seq(STRING) /\ harborPrefix # <<>>
  BY AccessAssumption DEF TypeOK
<1>5. harborPrefix \in Seq(Char)
  BY <1>4 DEF Char
<1> QED BY <1>1, <1>2, <1>3, <1>4, <1>5

\* The full names of the robot and of those named after it have one front.
LEMMA OwnNameParts ==
    ASSUME TypeOK, entry # NoEntry
    PROVE  /\ OwnName \in Seq(Char)
           /\ \E front \in Seq(Char) :
                 /\ OwnName = front \o entry.name
                 /\ \A c \in Copies : CopyFullName(c) = front \o CopyName(c)
<1> DEFINE between ==
      IF entry.level = "project" THEN <<entry.namespace, "+">> ELSE <<>>
<1>1. "+" \in Char
  BY MarksAreChars
<1>2. between \in Seq(Char)
  BY <1>1, NameParts
<1>3. harborPrefix \o between \in Seq(Char)
  <2> HIDE DEF between
  <2> QED BY <1>2, NameParts
<1>4. OwnName = (harborPrefix \o between) \o entry.name
  BY DEF OwnName, FullName
<1>5. \A c \in Copies : CopyFullName(c) = (harborPrefix \o between) \o CopyName(c)
  BY DEF CopyFullName, FullName
<1> HIDE DEF between
<1>6. OwnName \in Seq(Char)
  BY <1>3, <1>4, NameParts
<1> QED BY <1>3, <1>4, <1>5, <1>6

\* ShortName finds the entry's name again in the full name of its robot, where
\* Harbor's prefix lets it.
LEMMA OwnShortName ==
    ASSUME TypeOK, entry # NoEntry, NameComesBack
    PROVE  ShortName(OwnName) = entry.name
<1>1. {"$", "+"} \subseteq Char
  BY MarksAreChars
<1>2. entry.level = "project" \/ harborPrefix[Len(harborPrefix)] \in Separators
  BY DEF NameComesBack, Last, Separators
<1> QED BY <1>1, <1>2, NameParts, ShortNameBack DEF OwnName, Levels

\* A robot named after ours has another full name and another short name: both
\* are longer.
LEMMA CopyIsLonger ==
    ASSUME TypeOK, entry # NoEntry, NEW c \in Copies, HarborRobotName(CopyName(c))
    PROVE  /\ CopyFullName(c) \in Seq(Char)
           /\ CopyFullName(c) # OwnName
           /\ ShortName(CopyFullName(c)) # entry.name
<1>1. PICK front \in Seq(Char) :
         OwnName = front \o entry.name /\ CopyFullName(c) = front \o CopyName(c)
  BY OwnNameParts
<1>2. entry.name \in Seq(Char)
  BY NameParts
<1>3. c[1] \in Seq(Char) /\ c[2] \in Seq(Char) /\ (c[1] # <<>> \/ c[2] # <<>>)
  BY AccessAssumption
<1>4. CopyName(c) \in Seq(Char) /\ Len(CopyName(c)) > Len(entry.name)
  <2>1. \A s \in Seq(Char) : Len(s) \in Nat /\ (s # <<>> => Len(s) > 0)
    OBVIOUS
  <2>2. /\ c[1] \o entry.name \in Seq(Char)
        /\ Len(c[1] \o entry.name) = Len(c[1]) + Len(entry.name)
    BY <1>2, <1>3
  <2>3. /\ CopyName(c) \in Seq(Char)
        /\ Len(CopyName(c)) = Len(c[1] \o entry.name) + Len(c[2])
    BY <1>3, <2>2 DEF CopyName
  <2>4. Len(CopyName(c)) = Len(c[1]) + Len(entry.name) + Len(c[2])
    BY <2>2, <2>3
  <2>5. Len(c[1]) \in Nat /\ Len(c[2]) \in Nat /\ Len(entry.name) \in Nat
    BY <1>2, <1>3, <2>1
  <2>6. Len(c[1]) > 0 \/ Len(c[2]) > 0
    BY <1>3, <2>1
  <2>7. ASSUME NEW l \in Nat, NEW m \in Nat, NEW n \in Nat, l > 0 \/ n > 0
        PROVE  l + m + n > m
    BY <2>7
  <2> QED BY <2>3, <2>4, <2>5, <2>6, <2>7
<1>5. \A i \in 1..Len(CopyName(c)) : CopyName(c)[i] \notin Separators
  <2>1. DOMAIN CopyName(c) = 1..Len(CopyName(c))
    BY <1>4
  <2> QED BY <2>1, ValidNameHasNoSeparator
<1>6. Len(ShortName(front \o CopyName(c))) >= Len(CopyName(c))
  BY <1>4, <1>5, ShortNameKeepsTail
<1>7. ShortName(CopyFullName(c)) # entry.name
  BY <1>1, <1>2, <1>4, <1>6
<1>8. front \o CopyName(c) \in Seq(Char) /\ front \o CopyName(c) # front \o entry.name
  <2>1. /\ Len(front \o CopyName(c)) = Len(front) + Len(CopyName(c))
        /\ Len(front \o entry.name) = Len(front) + Len(entry.name)
    BY <1>2, <1>4
  <2> QED BY <1>2, <1>4, <2>1
<1> QED BY <1>1, <1>7, <1>8

\* A name is found by itself in the fuzzy search.
LEMMA FoundInItself ==
    ASSUME NEW s \in Seq(Char)
    PROVE  Substring(s, s)
<1>1. Len(s) \in Nat /\ SubSeq(s, 0 + 1, Len(s)) = s
  OBVIOUS
<1>2. 0 \in 0..Len(s) /\ Len(s) \in 0..Len(s)
  BY <1>1
<1> QED BY <1>1, <1>2 DEF Substring, SubSeqs

-----------------------------------------------------------------------------
(* The rollback pass, and steps that leave most alone                      *)

\* No pass of the rollback is under way in Idle.
LEMMA IdlePass == Idle \in Pass /\ Idle.step = "idle"
BY DEF Idle, Pass

\* A pass that goes on to list.
LEMMA PassLists ==
    ASSUME NEW r \in Pass
    PROVE  [r EXCEPT !.step = "list"] \in Pass /\ [r EXCEPT !.step = "list"].step = "list"
BY DEF Pass

\* A pass that found no robot in the page it looked at.
LEMMA PassGivesUp ==
    ASSUME NEW r \in Pass, NEW cut \in BOOLEAN
    PROVE  /\ [r EXCEPT !.step = "drop", !.cut = cut] \in Pass
           /\ [r EXCEPT !.step = "drop", !.cut = cut].step = "drop"
           /\ [r EXCEPT !.step = "drop", !.cut = cut].cut = cut
BY DEF Pass

\* A pass that found a robot.
LEMMA PassFinds ==
    ASSUME NEW r \in Pass, NEW found \in Robot
    PROVE  /\ [r EXCEPT !.step = "delete", !.found = found] \in Pass
           /\ [r EXCEPT !.step = "delete", !.found = found].step = "delete"
           /\ [r EXCEPT !.step = "delete", !.found = found].found = found
BY DEF Pass

\* A pass that deleted the robot it found.
LEMMA PassDone ==
    ASSUME NEW r \in Pass
    PROVE  /\ [r EXCEPT !.step = "drop", !.found = NoRobot] \in Pass
           /\ [r EXCEPT !.step = "drop", !.found = NoRobot].step = "drop"
BY DEF Pass

\* RobotsNamed survives the end of any robot.
LEMMA RobotsOnlyGo ==
    ASSUME RobotsNamed, UNCHANGED <<entry, harborPrefix>>, robots' \subseteq robots
    PROVE  RobotsNamed'
BY DEF RobotsNamed, OwnName, CopyName, CopyFullName

\* So does DropMeansGone.
LEMMA GoneStaysGone ==
    ASSUME DropMeansGone, UNCHANGED <<entry, harborPrefix, rollback>>,
           robots' \subseteq robots
    PROVE  DropMeansGone'
BY DEF DropMeansGone, Own, OwnName, NameComesBack

\* What the pass found is not affected by what happens elsewhere.
LEMMA FoundKept ==
    ASSUME OnlyOwnFound, UNCHANGED <<entry, harborPrefix, rollback>>
    PROVE  OnlyOwnFound'
BY DEF OnlyOwnFound, OwnName

-----------------------------------------------------------------------------
(* The actions                                                             *)

\* pathRoleWrite: what is stored was validated as a whole, whichever of its
\* fields this write gave.
LEMMA WriteRoleKeeps ==
    ASSUME IInv, WriteRole
    PROVE  IInv'
<1>1. TypeOK'
  <2>1. PICK level \in WrittenLevels \union {role.level},
             perms \in WrittenPermissions \union {role.perms} :
           LET r == [level |-> level, perms |-> perms]
           IN  validateRole(r) /\ role' = r
    BY DEF WriteRole
  <2>2. role'.level \in Levels /\ role'.perms # <<>> /\ role'.perms = perms
    BY <2>1 DEF validateRole, KnownLevel
  <2>3. perms \in WrittenPermissions
    <3>1. CASE role = EmptyRole
      BY <2>1, <2>2, <3>1 DEF EmptyRole
    <3>2. CASE RoleLike(role)
      BY <2>1, <3>2 DEF RoleLike
    <3> QED BY <3>1, <3>2 DEF IInv, TypeOK
  <2>4. RoleLike(role')
    BY <2>2, <2>3 DEF RoleLike
  <2> QED
    BY <2>4 DEF IInv, TypeOK, WriteRole, harborVars, handlerVars
<1>2. RoleValid'
  BY DEF IInv, RoleValid, WriteRole, handlerVars
<1>3. EntryFollowsHandler'
  BY DEF IInv, EntryFollowsHandler, WriteRole, harborVars, handlerVars
<1>4. RobotsNamed'
  BY RobotsOnlyGo DEF IInv, WriteRole, harborVars
<1>5. RollbackFollowsEntry'
  BY DEF IInv, RollbackFollowsEntry, OnlyOwnFound, OwnName, WriteRole,
     harborVars, handlerVars
<1>6. DropMeansGone'
  BY GoneStaysGone DEF IInv, WriteRole, harborVars
<1> QED
  BY <1>1, <1>2, <1>3, <1>4, <1>5, <1>6 DEF IInv

\* A read under way keeps the role it has.
LEMMA DeleteRoleKeeps ==
    ASSUME IInv, DeleteRole
    PROVE  IInv'
<1>1. TypeOK'
  BY DEF IInv, TypeOK, DeleteRole, harborVars, handlerVars
<1>2. RoleValid'
  BY DEF IInv, RoleValid, DeleteRole, handlerVars
<1>3. EntryFollowsHandler'
  BY DEF IInv, EntryFollowsHandler, DeleteRole, harborVars, handlerVars
<1>4. RobotsNamed'
  BY RobotsOnlyGo DEF IInv, DeleteRole, harborVars
<1>5. RollbackFollowsEntry'
  BY DEF IInv, RollbackFollowsEntry, OnlyOwnFound, OwnName, DeleteRole,
     harborVars, handlerVars
<1>6. DropMeansGone'
  BY GoneStaysGone DEF IInv, DeleteRole, harborVars
<1> QED
  BY <1>1, <1>2, <1>3, <1>4, <1>5, <1>6 DEF IInv

\* The read starts with a role that was validated.
LEMMA BeginKeeps ==
    ASSUME IInv, Begin
    PROVE  IInv'
<1>1. TypeOK'
  BY DEF IInv, TypeOK, Begin, harborVars
<1>2. RoleValid'
  BY DEF IInv, TypeOK, RoleValid, Begin
<1>3. EntryFollowsHandler'
  BY DEF IInv, EntryFollowsHandler, Begin, harborVars
<1>4. RobotsNamed'
  BY RobotsOnlyGo DEF IInv, Begin, harborVars
<1>5. RollbackFollowsEntry'
  BY DEF IInv, RollbackFollowsEntry, OnlyOwnFound, Begin
<1>6. DropMeansGone'
  BY GoneStaysGone DEF IInv, Begin, harborVars
<1> QED
  BY <1>1, <1>2, <1>3, <1>4, <1>5, <1>6 DEF IInv

\* The entry takes level and project from the role read, and a sound name.
LEMMA PutWALKeeps ==
    ASSUME IInv, PutWAL
    PROVE  IInv'
<1> DEFINE name == robotName(raw.prefix, raw.role, Suffix)
<1>1. name \in Seq(Char) /\ HarborRobotName(name)
  BY NameIsSound
<1>2. RoleLike(wanted) /\ validateRole(wanted)
  BY DEF IInv, RoleValid, PutWAL
<1>3. wanted.level = "project" => wanted.perms[1].namespace \in Namespace
  BY <1>2, FirstPermission DEF RoleLike
<1>4. /\ entry'.name = name
      /\ entry'.level = wanted.level
      /\ wanted.level = "project" => entry'.namespace = wanted.perms[1].namespace
      /\ entry' \in Entry
  BY <1>1, <1>2, <1>3 DEF PutWAL, WalRobot, Entry, RoleLike, Namespace
<1>5. entry' # NoEntry
  BY <1>4, AccessAssumption
<1> HIDE DEF name
<1>6. TypeOK'
  BY <1>1, <1>4 DEF IInv, TypeOK, PutWAL, harborVars
<1>7. RoleValid'
  BY DEF IInv, RoleValid, PutWAL
<1>8. EntryFollowsHandler'
  BY <1>4, <1>5 DEF IInv, EntryFollowsHandler, PutWAL, harborVars
<1>9. RobotsNamed'
  BY DEF IInv, RobotsNamed, EntryFollowsHandler, PutWAL, harborVars
<1>10. RollbackFollowsEntry'
  BY DEF IInv, RollbackFollowsEntry, OnlyOwnFound, PutWAL
<1>11. DropMeansGone'
  BY DEF IInv, DropMeansGone, RollbackFollowsEntry, PutWAL
<1> QED
  BY <1>6, <1>7, <1>8, <1>9, <1>10, <1>11 DEF IInv

\* Harbor's robot is the one of the entry: its name, level and project.
LEMMA CreateRobotKeeps ==
    ASSUME IInv, CreateRobot
    PROVE  IInv'
<1> DEFINE new == [full |-> OwnName, level |-> wanted.level, perms |-> wanted.perms]
<1>1. robots' \subseteq {new}
  BY DEF IInv, EntryFollowsHandler, CreateRobot
<1>2. entry # NoEntry /\ RoleLike(wanted) /\ validateRole(wanted)
  BY DEF IInv, RoleValid, EntryFollowsHandler, CreateRobot
<1>3. OwnName \in Seq(Char)
  BY <1>2, OwnNameParts DEF IInv
<1>4. new \in Robot
  BY <1>2, <1>3 DEF Robot, RoleLike
<1>5. validateRole(new)
  BY <1>2, SameRole
<1>6. TypeOK'
  <2>1. robots' \subseteq Robot
    BY <1>1, <1>4
  <2> QED
    BY <2>1 DEF IInv, TypeOK, CreateRobot
<1>7. RoleValid'
  BY DEF IInv, RoleValid, CreateRobot
<1>8. EntryFollowsHandler'
  BY DEF IInv, EntryFollowsHandler, CreateRobot
<1>9. RobotsNamed'
  <2>1. OwnName' = OwnName
    BY DEF OwnName, CreateRobot
  <2>2. /\ entry.level = wanted.level
        /\ wanted.level = "project" => entry.namespace = wanted.perms[1].namespace
    BY DEF IInv, EntryFollowsHandler, CreateRobot
  <2> QED
    BY <1>1, <1>5, <2>1, <2>2 DEF RobotsNamed, CreateRobot
<1>10. RollbackFollowsEntry'
  BY DEF IInv, RollbackFollowsEntry, OnlyOwnFound, CreateRobot
<1>11. DropMeansGone'
  BY DEF IInv, RollbackFollowsEntry, DropMeansGone, CreateRobot
<1> QED
  BY <1>6, <1>7, <1>8, <1>9, <1>10, <1>11 DEF IInv

\* No robot was made.
LEMMA RefusedKeeps ==
    ASSUME IInv, Refused
    PROVE  IInv'
<1>1. TypeOK'
  BY DEF IInv, TypeOK, Refused, harborVars
<1>2. RoleValid'
  BY DEF IInv, RoleValid, Refused
<1>3. EntryFollowsHandler'
  BY DEF EntryFollowsHandler, Refused
<1>4. RobotsNamed'
  BY DEF IInv, RobotsNamed, OwnName, CopyName, CopyFullName, EntryFollowsHandler, Refused, harborVars
<1>5. RollbackFollowsEntry'
  BY DEF IInv, RollbackFollowsEntry, OnlyOwnFound, Refused
<1>6. DropMeansGone'
  BY DEF IInv, DropMeansGone, RollbackFollowsEntry, Refused
<1> QED
  BY <1>1, <1>2, <1>3, <1>4, <1>5, <1>6 DEF IInv

\* The entry goes when the robot is handed out, and the robot stays its own.
LEMMA DeleteWALKeeps ==
    ASSUME IInv, DeleteWAL
    PROVE  IInv'
<1>1. TypeOK'
  BY DEF IInv, TypeOK, DeleteWAL, harborVars
<1>2. RoleValid'
  BY DEF IInv, RoleValid, DeleteWAL
<1>3. EntryFollowsHandler'
  BY DEF IInv, EntryFollowsHandler, DeleteWAL
<1>4. RobotsNamed'
  BY DEF IInv, RobotsNamed, OwnName, CopyName, CopyFullName, EntryFollowsHandler, DeleteWAL,
     harborVars, handlerVars
<1>5. RollbackFollowsEntry'
  BY DEF IInv, RollbackFollowsEntry, OnlyOwnFound, DeleteWAL
<1>6. DropMeansGone'
  BY DEF IInv, DropMeansGone, RollbackFollowsEntry, DeleteWAL
<1> QED
  BY <1>1, <1>2, <1>3, <1>4, <1>5, <1>6 DEF IInv

\* deleteIssuedRobot: the robot goes, or the entry is left to the rollback.
LEMMA CleanupKeeps ==
    ASSUME IInv, Cleanup
    PROVE  IInv'
<1>1. TypeOK'
  BY DEF IInv, TypeOK, Cleanup, Without
<1>2. RoleValid'
  BY DEF IInv, RoleValid, Cleanup
<1>3. EntryFollowsHandler'
  BY DEF EntryFollowsHandler, Cleanup
<1>4. RobotsNamed'
  BY DEF IInv, RobotsNamed, OwnName, CopyName, CopyFullName, EntryFollowsHandler, Cleanup, Without,
     harborVars, handlerVars
<1>5. RollbackFollowsEntry'
  BY DEF IInv, RollbackFollowsEntry, OnlyOwnFound, Cleanup
<1>6. DropMeansGone'
  BY DEF IInv, DropMeansGone, RollbackFollowsEntry, Cleanup
<1> QED
  BY <1>1, <1>2, <1>3, <1>4, <1>5, <1>6 DEF IInv

\* A read that ends anywhere leaves its entry.
LEMMA DieKeeps ==
    ASSUME IInv, Die
    PROVE  IInv'
<1>1. TypeOK'
  BY DEF IInv, TypeOK, Die, harborVars
<1>2. RoleValid'
  BY DEF IInv, RoleValid, Die
<1>3. EntryFollowsHandler'
  BY DEF EntryFollowsHandler, Die
<1>4. RobotsNamed'
  BY RobotsOnlyGo DEF IInv, Die, harborVars
<1>5. RollbackFollowsEntry'
  BY DEF IInv, RollbackFollowsEntry, OnlyOwnFound, Die
<1>6. DropMeansGone'
  BY GoneStaysGone DEF IInv, Die, harborVars
<1> QED
  BY <1>1, <1>2, <1>3, <1>4, <1>5, <1>6 DEF IInv

\* Robots only go.
LEMMA RevokeKeeps ==
    ASSUME IInv, Revoke
    PROVE  IInv'
<1>1. TypeOK'
  BY DEF IInv, TypeOK, Revoke, Without, handlerVars
<1>2. RoleValid'
  BY DEF IInv, RoleValid, Revoke, handlerVars
<1>3. EntryFollowsHandler'
  BY DEF IInv, EntryFollowsHandler, Revoke, Without, handlerVars
<1>4. RobotsNamed'
  BY RobotsOnlyGo DEF IInv, Revoke, Without
<1>5. RollbackFollowsEntry'
  BY DEF IInv, RollbackFollowsEntry, OnlyOwnFound, OwnName, Revoke,
     handlerVars
<1>6. DropMeansGone'
  BY GoneStaysGone DEF IInv, Revoke, Without
<1> QED
  BY <1>1, <1>2, <1>3, <1>4, <1>5, <1>6 DEF IInv

\* A pass starts on the entry of a read that is over.
LEMMA RollbackPickKeeps ==
    ASSUME IInv, RollbackPick
    PROVE  IInv'
<1>1. PICK p \in Issuers :
        rollback' = [Idle EXCEPT !.client = p,
                        !.step = IF entry.level = "project" THEN "resolve" ELSE "list"]
  BY DEF RollbackPick
<1>2. rollback' \in Pass /\ rollback'.step \in {"resolve", "list"}
  BY <1>1 DEF Idle, Pass
<1>3. TypeOK'
  BY <1>2 DEF IInv, TypeOK, RollbackPick, harborVars, handlerVars
<1>4. RoleValid'
  BY DEF IInv, RoleValid, RollbackPick, handlerVars
<1>5. EntryFollowsHandler'
  BY DEF EntryFollowsHandler, RollbackPick, handlerVars
<1>6. RobotsNamed'
  BY RobotsOnlyGo DEF IInv, RollbackPick, harborVars
<1>7. RollbackFollowsEntry'
  BY <1>2 DEF RollbackFollowsEntry, OnlyOwnFound, RollbackPick, handlerVars
<1>8. DropMeansGone'
  BY <1>2 DEF DropMeansGone
<1> QED
  BY <1>3, <1>4, <1>5, <1>6, <1>7, <1>8 DEF IInv

\* Without its project the entry is not given up.
LEMMA ResolveKeeps ==
    ASSUME IInv, Resolve
    PROVE  IInv'
<1>1. TypeOK'
  BY IdlePass, PassLists DEF IInv, TypeOK, Resolve, NoSuchProject, harborVars,
     handlerVars
<1>2. RoleValid'
  BY DEF IInv, RoleValid, Resolve, handlerVars
<1>3. EntryFollowsHandler'
  BY DEF IInv, EntryFollowsHandler, Resolve, harborVars, handlerVars
<1>4. RobotsNamed'
  BY RobotsOnlyGo DEF IInv, Resolve, harborVars
<1>5. RollbackFollowsEntry'
  BY IdlePass DEF IInv, RollbackFollowsEntry, OnlyOwnFound, Resolve,
     NoSuchProject, handlerVars
<1>6. DropMeansGone'
  BY IdlePass DEF DropMeansGone, Resolve, NoSuchProject
<1> QED
  BY <1>1, <1>2, <1>3, <1>4, <1>5, <1>6 DEF IInv

\* FindRobotByShortName: a whole page without the entry's robot means that there
\* is none, if ShortName undoes FullName; and of those the search finds, only the
\* entry's own robot has its short name.
LEMMA ListRobotsKeeps ==
    ASSUME IInv, ListRobots
    PROVE  IInv'
<1>1. rollback \in Pass /\ entry # NoEntry /\ pc = "over" /\ robots \subseteq Robot
  BY DEF IInv, TypeOK, RollbackFollowsEntry, ListRobots
<1>2. \A page \in Pages(entry.name) : page \subseteq Matching(entry.name)
  BY DEF Pages, kSubset
<1>3. Matching(entry.name) \subseteq robots
  BY DEF Matching, Listed
<1>4. \/ rollback' = Idle
      \/ \E page \in Pages(entry.name) :
            /\ {r \in page : IsNamed(r, entry.name)} = {}
            /\ rollback' = [rollback EXCEPT !.step = "drop",
                                            !.cut = page # Matching(entry.name)]
      \/ \E r \in Matching(entry.name) :
            /\ IsNamed(r, entry.name)
            /\ rollback' = [rollback EXCEPT !.step = "delete", !.found = r]
  BY <1>2 DEF ListRobots
<1>5. CASE rollback' = Idle
  BY <1>1, <1>5, IdlePass, RobotsOnlyGo DEF IInv, TypeOK, RoleLike, RoleValid,
     EntryFollowsHandler, RollbackFollowsEntry, OnlyOwnFound, DropMeansGone,
     ListRobots, harborVars, handlerVars
<1>6. ASSUME NEW page \in Pages(entry.name),
             {r \in page : IsNamed(r, entry.name)} = {},
             rollback' = [rollback EXCEPT !.step = "drop",
                                          !.cut = page # Matching(entry.name)]
      PROVE  IInv'
  <2>1. /\ rollback' \in Pass
        /\ rollback'.step = "drop"
        /\ rollback'.cut = (page # Matching(entry.name))
    BY <1>1, <1>6, PassGivesUp
  <2>2. ASSUME ~rollback'.cut, NameComesBack, NEW r \in Own PROVE FALSE
    <3>1. r \in robots /\ r.full = OwnName
      BY DEF Own
    <3>2. ShortName(r.full) = entry.name
      BY <1>1, <2>2, <3>1, OwnShortName DEF IInv
    <3>3. Substring(entry.name, ShortName(r.full))
      BY <1>1, <3>2, NameParts, FoundInItself DEF IInv
    <3>4. r \in Matching(entry.name)
      BY <1>1, <3>1, <3>3 DEF IInv, RobotsNamed, Matching, Listed
    <3> QED
      BY <1>6, <2>1, <2>2, <3>2, <3>4 DEF IsNamed
  <2>3. DropMeansGone'
    BY <2>2 DEF DropMeansGone, Own, OwnName, NameComesBack, ListRobots,
       harborVars
  <2>4. TypeOK'
    BY <2>1 DEF IInv, TypeOK, RoleLike, ListRobots, harborVars, handlerVars
  <2> QED
    BY <1>1, <2>1, <2>3, <2>4, RobotsOnlyGo DEF IInv, RoleValid,
       EntryFollowsHandler, RollbackFollowsEntry, OnlyOwnFound, ListRobots,
       harborVars, handlerVars
<1>7. ASSUME NEW r \in Matching(entry.name),
             IsNamed(r, entry.name),
             rollback' = [rollback EXCEPT !.step = "delete", !.found = r]
      PROVE  IInv'
  <2>1. r \in robots /\ r \in Robot
    BY <1>1, <1>3, <1>7
  <2>2. rollback' \in Pass /\ rollback'.step = "delete" /\ rollback'.found = r
    BY <1>1, <1>7, <2>1, PassFinds
  <2>3. r.full = OwnName
    <3>1. \/ r.full = OwnName
          \/ \E c \in Copies : HarborRobotName(CopyName(c)) /\ r.full = CopyFullName(c)
      BY <1>1, <2>1 DEF IInv, RobotsNamed
    <3>2. ShortName(r.full) = entry.name
      BY <1>7 DEF IsNamed
    <3> QED
      BY <1>1, <3>1, <3>2, CopyIsLonger DEF IInv
  <2>4. OnlyOwnFound'
    BY <2>2, <2>3 DEF OnlyOwnFound, OwnName, ListRobots, harborVars
  <2>5. TypeOK'
    BY <2>2 DEF IInv, TypeOK, RoleLike, ListRobots, harborVars, handlerVars
  <2> QED
    BY <1>1, <2>1, <2>2, <2>4, <2>5, RobotsOnlyGo DEF IInv, RoleValid,
       EntryFollowsHandler, RollbackFollowsEntry, DropMeansGone, ListRobots,
       harborVars, handlerVars
<1> QED
  BY <1>4, <1>5, <1>6, <1>7

\* What was found is deleted, and that was the entry's robot.
LEMMA DeleteRobotKeeps ==
    ASSUME IInv, DeleteRobot
    PROVE  IInv'
<1>1. TypeOK'
  <2>1. rollback' \in Pass
    BY IdlePass, PassDone DEF IInv, TypeOK, DeleteRobot
  <2>2. robots' \subseteq robots
    BY DEF DeleteRobot, Without
  <2> QED
    BY <2>1, <2>2 DEF IInv, TypeOK, DeleteRobot, handlerVars
<1>2. RoleValid'
  BY DEF IInv, RoleValid, DeleteRobot, handlerVars
<1>3. EntryFollowsHandler'
  BY DEF IInv, EntryFollowsHandler, DeleteRobot, Without, handlerVars
<1>4. RobotsNamed'
  BY RobotsOnlyGo DEF IInv, DeleteRobot, Without
<1>5. RollbackFollowsEntry'
  BY IdlePass, PassDone DEF IInv, TypeOK, RollbackFollowsEntry,
     EntryFollowsHandler, OnlyOwnFound, OwnName, DeleteRobot, Without,
     Forbidden, harborVars, handlerVars
<1>6. DropMeansGone'
  <2>1. CASE rollback' = Idle
    BY <2>1, IdlePass DEF DropMeansGone
  <2>2. CASE robots' = Without(rollback.found.full)
    BY <2>2 DEF IInv, RollbackFollowsEntry, OnlyOwnFound, DropMeansGone, Own,
       OwnName, Without, DeleteRobot
  <2> QED
    BY <2>1, <2>2 DEF DeleteRobot
<1> QED
  BY <1>1, <1>2, <1>3, <1>4, <1>5, <1>6 DEF IInv

\* No entry, nothing to keep.
LEMMA DropKeeps ==
    ASSUME IInv, Drop
    PROVE  IInv'
<1>1. TypeOK'
  BY IdlePass DEF IInv, TypeOK, Drop, harborVars, handlerVars
<1>2. RoleValid'
  BY DEF IInv, RoleValid, Drop, handlerVars
<1>3. EntryFollowsHandler'
  BY DEF IInv, EntryFollowsHandler, RollbackFollowsEntry, Drop, handlerVars
<1>4. RobotsNamed'
  BY DEF RobotsNamed, Drop
<1>5. RollbackFollowsEntry'
  BY IdlePass DEF RollbackFollowsEntry, OnlyOwnFound, Drop
<1>6. DropMeansGone'
  BY IdlePass DEF DropMeansGone, Drop
<1> QED
  BY <1>1, <1>2, <1>3, <1>4, <1>5, <1>6 DEF IInv

\* The entry stays for the next pass.
LEMMA RollbackErrKeeps ==
    ASSUME IInv, RollbackErr
    PROVE  IInv'
<1>1. TypeOK'
  BY IdlePass DEF IInv, TypeOK, RollbackErr, harborVars, handlerVars
<1>2. RoleValid'
  BY DEF IInv, RoleValid, RollbackErr, handlerVars
<1>3. EntryFollowsHandler'
  BY DEF IInv, EntryFollowsHandler, RollbackErr, harborVars, handlerVars
<1>4. RobotsNamed'
  BY RobotsOnlyGo DEF IInv, RollbackErr, harborVars
<1>5. RollbackFollowsEntry'
  BY IdlePass DEF RollbackFollowsEntry, OnlyOwnFound, RollbackErr
<1>6. DropMeansGone'
  BY IdlePass DEF DropMeansGone, RollbackErr
<1> QED
  BY <1>1, <1>2, <1>3, <1>4, <1>5, <1>6 DEF IInv

\* Robots only go.
LEMMA DeleteProjectKeeps ==
    ASSUME IInv, DeleteProject
    PROVE  IInv'
<1>1. TypeOK'
  BY DEF IInv, TypeOK, DeleteProject, handlerVars
<1>2. RoleValid'
  BY DEF IInv, RoleValid, DeleteProject, handlerVars
<1>3. EntryFollowsHandler'
  BY DEF IInv, EntryFollowsHandler, DeleteProject, handlerVars
<1>4. RobotsNamed'
  BY RobotsOnlyGo DEF IInv, DeleteProject
<1>5. RollbackFollowsEntry'
  BY DEF IInv, RollbackFollowsEntry, OnlyOwnFound, OwnName, DeleteProject,
     handlerVars
<1>6. DropMeansGone'
  BY GoneStaysGone DEF IInv, DeleteProject
<1> QED
  BY <1>1, <1>2, <1>3, <1>4, <1>5, <1>6 DEF IInv

\* A project that comes back brings no robots.
LEMMA CreateProjectKeeps ==
    ASSUME IInv, CreateProject
    PROVE  IInv'
<1>1. TypeOK'
  BY DEF IInv, TypeOK, CreateProject, handlerVars
<1>2. RoleValid'
  BY DEF IInv, RoleValid, CreateProject, handlerVars
<1>3. EntryFollowsHandler'
  BY DEF IInv, EntryFollowsHandler, CreateProject, handlerVars
<1>4. RobotsNamed'
  BY RobotsOnlyGo DEF IInv, CreateProject
<1>5. RollbackFollowsEntry'
  BY DEF IInv, RollbackFollowsEntry, OnlyOwnFound, OwnName, CreateProject,
     handlerVars
<1>6. DropMeansGone'
  BY GoneStaysGone DEF IInv, CreateProject
<1> QED
  BY <1>1, <1>2, <1>3, <1>4, <1>5, <1>6 DEF IInv

\* The copy has the level and permissions of ours, and another name.
LEMMA CopyRobotKeeps ==
    ASSUME IInv, CopyRobot
    PROVE  IInv'
<1>1. entry # NoEntry
  BY DEF CopyRobot
<1>2. PICK r \in Own, c \in Copies :
         /\ HarborRobotName(CopyName(c))
         /\ robots' = robots \union {[r EXCEPT !.full = CopyFullName(c)]}
  BY DEF CopyRobot
<1> DEFINE copy == [r EXCEPT !.full = CopyFullName(c)]
<1>3. r \in robots /\ r \in Robot /\ r.full = OwnName
  BY <1>2 DEF Own, IInv, TypeOK
<1>4. CopyFullName(c) \in Seq(Char) /\ CopyFullName(c) # OwnName
  BY <1>1, <1>2, CopyIsLonger DEF IInv
<1>5. /\ copy \in Robot
      /\ copy.full = CopyFullName(c)
      /\ copy.level = r.level
      /\ copy.perms = r.perms
  BY <1>3, <1>4 DEF Robot
<1>6. validateRole(copy)
  BY <1>1, <1>3, <1>5, SameRole DEF IInv, RobotsNamed
<1> HIDE DEF copy
<1>7. /\ robots' = robots \union {copy}
      /\ UNCHANGED <<role, projects, harborPrefix, handlerVars, entry, lease, rollback>>
  BY <1>2 DEF CopyRobot, copy
<1>8. TypeOK'
  BY <1>5, <1>7 DEF IInv, TypeOK, handlerVars
<1>9. RoleValid'
  BY DEF IInv, RoleValid, CopyRobot, handlerVars
<1>10. EntryFollowsHandler'
  BY <1>3, <1>7 DEF IInv, EntryFollowsHandler, handlerVars
<1>11. RobotsNamed'
  <2>1. /\ OwnName' = OwnName
        /\ \A d \in Copies : /\ CopyName(d)' = CopyName(d)
                             /\ CopyFullName(d)' = CopyFullName(d)
    BY <1>7 DEF OwnName, CopyName, CopyFullName
  <2> QED
    BY <1>1, <1>2, <1>3, <1>5, <1>6, <1>7, <2>1 DEF IInv, RobotsNamed
<1>12. RollbackFollowsEntry'
  BY DEF IInv, RollbackFollowsEntry, OnlyOwnFound, OwnName, CopyRobot,
     handlerVars
<1>13. DropMeansGone'
  <2>1. rollback.step = "drop" => rollback.cut \/ ~NameComesBack
    BY <1>2 DEF IInv, DropMeansGone
  <2> QED
    BY <1>7, <2>1 DEF DropMeansGone, NameComesBack
<1> QED
  BY <1>8, <1>9, <1>10, <1>11, <1>12, <1>13 DEF IInv

\* Robots only go.
LEMMA DeleteInHarborKeeps ==
    ASSUME IInv, DeleteInHarbor
    PROVE  IInv'
<1>1. TypeOK'
  BY DEF IInv, TypeOK, DeleteInHarbor, handlerVars
<1>2. RoleValid'
  BY DEF IInv, RoleValid, DeleteInHarbor, handlerVars
<1>3. EntryFollowsHandler'
  BY DEF IInv, EntryFollowsHandler, DeleteInHarbor, handlerVars
<1>4. RobotsNamed'
  BY RobotsOnlyGo DEF IInv, DeleteInHarbor
<1>5. RollbackFollowsEntry'
  BY DEF IInv, RollbackFollowsEntry, OnlyOwnFound, OwnName, DeleteInHarbor,
     handlerVars
<1>6. DropMeansGone'
  BY GoneStaysGone DEF IInv, DeleteInHarbor
<1> QED
  BY <1>1, <1>2, <1>3, <1>4, <1>5, <1>6 DEF IInv

\* Nothing is written yet.
LEMMA InitIInv == Init => IInv
<1> SUFFICES ASSUME Init PROVE IInv
  OBVIOUS
<1>1. TypeOK
  BY IdlePass DEF Init, TypeOK
<1>2. rollback.step = "idle"
  BY IdlePass DEF Init
<1> QED
  BY <1>1, <1>2 DEF Init, IInv, RoleValid, EntryFollowsHandler, RobotsNamed,
     RollbackFollowsEntry, DropMeansGone, OnlyOwnFound

\* Every step is one of the actions above or changes nothing.
LEMMA StepKeepsIInv == IInv /\ [Next]_vars => IInv'
<1> SUFFICES ASSUME IInv, [Next]_vars PROVE IInv'
  OBVIOUS
<1>1. CASE Next
  BY <1>1, WriteRoleKeeps, DeleteRoleKeeps, BeginKeeps, PutWALKeeps,
     CreateRobotKeeps, RefusedKeeps, DeleteWALKeeps, CleanupKeeps, DieKeeps,
     RevokeKeeps, RollbackPickKeeps, ResolveKeeps, ListRobotsKeeps,
     DeleteRobotKeeps, DropKeeps, RollbackErrKeeps, DeleteProjectKeeps,
     CreateProjectKeeps, CopyRobotKeeps, DeleteInHarborKeeps DEF Next
<1>2. CASE UNCHANGED vars
  <2> USE <1>2 DEF vars, harborVars, handlerVars
  <2>1. TypeOK' /\ RoleValid' /\ EntryFollowsHandler'
    BY DEF IInv, TypeOK, RoleValid, EntryFollowsHandler
  <2>2. RobotsNamed' /\ DropMeansGone' /\ OnlyOwnFound'
    BY RobotsOnlyGo, GoneStaysGone, FoundKept DEF IInv, RollbackFollowsEntry
  <2> QED
    BY <2>1, <2>2 DEF IInv, RollbackFollowsEntry
<1> QED
  BY <1>1, <1>2

-----------------------------------------------------------------------------
(* The theorems                                                            *)

\* IInv holds in every reachable state: what the WAL entry says and the robot
\* Harbor has agree, however roles are rewritten meanwhile.
THEOREM Inductive == Spec => []IInv
<1>1. Init => IInv
  BY InitIInv
<1>2. IInv /\ [Next]_vars => IInv'
  BY StepKeepsIInv
<1> QED
  BY <1>1, <1>2, PTL DEF Spec

\* TypeOK: roles, names and levels stay what path_roles.go and naming.go let
\* through.
THEOREM TypeCorrect == Spec => []TypeOK
<1>1. IInv => TypeOK
  BY DEF IInv
<1> QED
  BY <1>1, Inductive, PTL

\* validateRole covers each of Harbor's checks that is not unforeseen.
LEMMA AcceptedUnlessUnforeseen ==
    ASSUME IInv
    PROVE  ValidRoleAccepted
<1> SUFFICES ASSUME pc = "create", client.type = "user", client.sysadmin,
                    ~Unforeseen(wanted)
             PROVE  Accepts(wanted, entry.name)
  BY DEF ValidRoleAccepted
<1>1. RoleLike(wanted) /\ validateRole(wanted)
  BY DEF IInv, RoleValid
<1>2. /\ wanted.perms \in Seq(Permission)
      /\ Len(wanted.perms) \in Nat
      /\ DOMAIN wanted.perms = 1..Len(wanted.perms)
  BY <1>1, AccessAssumption DEF RoleLike
<1>3. 1 \in DOMAIN wanted.perms
  BY <1>1, FirstPermission DEF RoleLike
<1>4. wanted.level = "project" => Len(wanted.perms) = 1
  <2>1. ASSUME wanted.level = "project" PROVE ~(Len(wanted.perms) > 1)
    <3>1. \A i \in DOMAIN wanted.perms :
             wanted.perms[i].namespace = wanted.perms[1].namespace
      BY <1>1, <1>3, <2>1 DEF validateRole, OneNamespace
    <3> QED BY <2>1, <3>1 DEF Unforeseen
  <2>2. Len(wanted.perms) \in Nat /\ Len(wanted.perms) >= 1
    BY <1>2, <1>3
  <2>3. ~(Len(wanted.perms) > 1) => Len(wanted.perms) = 1
    <3> DEFINE n == Len(wanted.perms)
    <3> HIDE DEF n
    <3>1. n \in Nat /\ n >= 1
      BY <2>2 DEF n
    <3>2. ~(n > 1) => n = 1
      BY <3>1
    <3> QED BY <3>2 DEF n
  <2> QED BY <2>1, <2>3
<1>5. HarborRobotName(entry.name)
  BY DEF IInv, TypeOK, EntryFollowsHandler
<1>6. WellFormed(wanted, entry.name)
  BY <1>1, <1>3, <1>4, <1>5 DEF WellFormed, Unforeseen, validateRole,
     KnownLevel
<1>7. MayCreate(client, wanted)
  BY DEF MayCreate
<1>8. ~Taken(wanted, entry.name)
  BY DEF IInv, EntryFollowsHandler, Taken
<1> QED BY <1>6, <1>7, <1>8 DEF Accepts

\* A robot that may make one in a scope holds, as documented, the rules to list
\* and delete there; and the entry leads to that scope.
LEMMA NoCleanupRefused ==
    ASSUME IInv
    PROVE  CleanupAllowed
<1> SUFFICES ASSUME entry # NoEntry, NEW r \in Own, NEW p \in Issuers,
                    AsDocumented(p), MayCreate(p, r), p.type # "user"
             PROVE  MayList(p, entry.level, entry.namespace) /\ MayDelete(p, r)
  BY DEF CleanupAllowed, MayList, MayDelete
<1>1. r \in robots /\ r.perms \in WrittenPermissions
  BY DEF Own, IInv, TypeOK, Robot
<1>2. /\ validateRole(r)
      /\ r.level = entry.level
      /\ r.level = "project" => r.perms[1].namespace = entry.namespace
  BY <1>1 DEF IInv, RobotsNamed
<1>3. 1 \in DOMAIN r.perms /\ r.level \in Levels
  BY <1>1, <1>2, FirstPermission
<1>4. /\ r.level = "system" => holds(p, System, "robot:create")
      /\ \A i \in DOMAIN r.perms : holds(p, r.perms[i], "robot:create")
  BY DEF MayCreate
<1>5. holds(p, Scope(r.level, r.perms[1].namespace), "robot:create")
  <2>1. CASE r.level = "system"
    BY <2>1, <1>4 DEF Scope
  <2>2. CASE r.level = "project"
    <3>1. r.perms[1].kind = "project"
      BY <2>2, <1>2, <1>3 DEF validateRole
    <3>2. PICK held \in p.perms :
             namespaceCovers(held, r.perms[1]) /\ "robot:create" \in held.access
      BY <1>3, <1>4 DEF holds
    <3>3. namespaceCovers(held, InProject(r.perms[1].namespace))
      BY <3>1, <3>2 DEF namespaceCovers, InProject
    <3> QED BY <2>2, <3>2, <3>3 DEF Scope, holds
  <2> QED BY <2>1, <2>2, <1>3 DEF Levels
<1>6. \A rule \in {"robot:list", "robot:delete"} :
         holds(p, Scope(r.level, r.perms[1].namespace), rule)
  BY <1>5 DEF holds, AsDocumented
<1>7. Scope(r.level, r.perms[1].namespace) = Scope(entry.level, entry.namespace)
  BY <1>2 DEF Scope
<1> QED BY <1>6, <1>7 DEF MayList, MayDelete

\* What the read is about to name its robot by is made of strings.
LEMMA GuardStaysUnreached ==
    ASSUME IInv
    PROVE  GuardUnreached
<1>1. raw.prefix \in Seq(STRING) /\ raw.role \in Seq(STRING)
  <2>1. CASE raw = NoRaw
    BY <2>1 DEF NoRaw
  <2>2. CASE raw \in [prefix : NamePrefixes, role : RoleNames]
    <3>1. raw.prefix \in NamePrefixes /\ raw.role \in RoleNames
      BY <2>2
    <3>2. RoleNames \union NamePrefixes \subseteq Seq(STRING)
      BY AccessAssumption
    <3> QED BY <3>1, <3>2
  <2> QED BY <2>1, <2>2 DEF IInv, TypeOK
<1>2. Suffix \in Seq(Alnum) /\ Suffix # <<>>
  BY AccessAssumption
<1> QED BY <1>1, <1>2, JoinedNameIsValid DEF GuardUnreached

\* GuardUnreached: the guard at the end of robotName (naming.go) is never taken,
\* for any prefixes and role names.
THEOREM GuardNeverReached == Spec => []GuardUnreached
<1>1. IInv => GuardUnreached
  BY GuardStaysUnreached
<1> QED
  BY <1>1, Inductive, PTL

\* ValidRoleAccepted: for any roles operators write, in any order, Harbor refuses
\* a system administrator's request for a reason validateRole leaves to it only.
THEOREM ValidRolesAccepted == Spec => []ValidRoleAccepted
<1>1. IInv => ValidRoleAccepted
  BY AcceptedUnlessUnforeseen
<1> QED
  BY <1>1, Inductive, PTL

\* CleanupAllowed: for any credentials and any changes of them, walRollback and
\* secretRobotRevoke are not forbidden what a documented issuer may have created.
THEOREM CleanupNeverRefused == Spec => []CleanupAllowed
<1>1. IInv => CleanupAllowed
  BY NoCleanupRefused
<1> QED
  BY <1>1, Inductive, PTL

\* OnlyOwnFound: for any names, FindRobotByShortName gives the rollback no robot
\* but the entry's own, although the search also finds those named after it.
THEOREM OnlyOwnRobotFound == Spec => []OnlyOwnFound
<1>1. IInv => OnlyOwnFound
  BY DEF IInv, RollbackFollowsEntry
<1> QED
  BY <1>1, Inductive, PTL

\* DropMeansGone: for any page size and any names, the entry walRollback gives up
\* has no robot left, unless the page was full or Harbor's prefix hides the name.
THEOREM DroppedMeansGone == Spec => []DropMeansGone
<1>1. IInv => DropMeansGone
  BY DEF IInv
<1> QED
  BY <1>1, Inductive, PTL

=============================================================================
