-------------------------- MODULE WalletDemoProofs --------------------------
(***************************************************************************)
(* Theorems about WalletDemo, for any number of users and of their         *)
(* commands: the demonstration drives the document store only by steps of  *)
(* its specification, and the verifier never gets the proof of one profile *)
(* in the name of the other.                                               *)
(***************************************************************************)
EXTENDS WalletDemo, TLAPS

P == INSTANCE StorageDataProofs
     WITH Client <- User \union {Script},
          Name <- Names, Doc <- DOMAIN ProfileAttr, Key <- Keys,
          Value <- {"Martin", "Dupont", "Oui", "Non"}, Attr <- ProfileAttr

Caller == User \union {Script}

-----------------------------------------------------------------------------
(***************************************************************************)
(* The data of the demonstration.                                          *)
(***************************************************************************)
LEMMA Profiles ==
  /\ DOMAIN ProfileAttr = {"Martin", "Dupont"}
  /\ \A n \in Names : Profile(n) \in DOMAIN ProfileAttr
  /\ \A d \in DOMAIN ProfileAttr :
        DOMAIN ProfileAttr[d] = Keys
  /\ ProfileAttr["Martin"]["Majeur"] = "Non" /\ ProfileAttr["Martin"]["Nom"] = "Martin"
  /\ ProfileAttr["Dupont"]["Majeur"] = "Oui" /\ ProfileAttr["Dupont"]["Nom"] = "Dupont"
<1>1. DOMAIN ProfileAttr = {"Martin", "Dupont"}
  BY DEF ProfileAttr
<1>2. ProfileAttr["Martin"] = [Nom |-> "Martin", Majeur |-> "Non"]
  BY DEF ProfileAttr
<1>3. ProfileAttr["Dupont"] = [Nom |-> "Dupont", Majeur |-> "Oui"]
  BY DEF ProfileAttr
<1>4. \A n \in Names : Profile(n) \in {"Martin", "Dupont"}
  BY DEF Profile
<1> QED
  BY <1>1, <1>2, <1>3, <1>4 DEF Keys

\* The commands of the host program are operations of the store.
LEMMA CommandsAreOps ==
  \A o \in Commands :
     /\ o \in TA!Op /\ o.name \in Names
     /\ o.cmd \in {"add", "present", "delete"}
     /\ o.cmd = "add" => o.doc = Profile(o.name) /\ o.exact
     /\ o.cmd = "present" => o.key \in Keys
<1>1. ASSUME NEW n \in Names
      PROVE  /\ add(n) \in TA!Op /\ add(n).name = n /\ add(n).cmd = "add"
             /\ add(n).doc = Profile(n) /\ add(n).exact
             /\ delete(n) \in TA!Op /\ delete(n).name = n /\ delete(n).cmd = "delete"
  BY Profiles DEF add, delete, TA!Op
<1>2. ASSUME NEW n \in Names, NEW key \in Keys
      PROVE  /\ present(n, key) \in TA!Op /\ present(n, key).name = n
             /\ present(n, key).cmd = "present" /\ present(n, key).key = key
  BY DEF present, TA!Op
<1> QED
  BY <1>1, <1>2 DEF Commands

\* The lines of the script.
LEMMA DemoLines ==
  /\ Len(Demo) = 10
  /\ \A i \in 1..10 : Demo[i].cmd # "post" => Demo[i] \in Commands /\ i \notin {6, 8}
  /\ \A i \in 1..10 : Demo[i].cmd = "post" => i \in {6, 8}
  /\ \A i \in 1..10 : Demo[i].cmd = "present" => Demo[i].key = "Majeur"
  /\ \A i \in 1..10 : Demo[i].name \in Names
<1>1. Len(Demo) = 10
  BY DEF Demo
<1>2. /\ Demo[1] = delete("mineur") /\ Demo[2] = delete("permis")
      /\ Demo[3] = add("mineur") /\ Demo[4] = add("permis")
      /\ Demo[5] = present("permis", "Majeur") /\ Demo[6] = Post("permis")
      /\ Demo[7] = present("mineur", "Majeur") /\ Demo[8] = Post("mineur")
      /\ Demo[9] = delete("permis") /\ Demo[10] = delete("mineur")
  BY DEF Demo
<1>3. /\ \A n \in Names : add(n) \in Commands /\ delete(n) \in Commands
      /\ \A n \in Names, key \in Keys : present(n, key) \in Commands
  BY DEF Commands
<1>4. /\ \A n : add(n).cmd = "add" /\ delete(n).cmd = "delete"
      /\ \A n, key : present(n, key).cmd = "present"
      /\ \A n : Post(n).cmd = "post"
      /\ \A n : add(n).name = n /\ delete(n).name = n /\ Post(n).name = n
      /\ \A n, key : present(n, key).name = n /\ present(n, key).key = key
  BY DEF add, delete, present, Post
<1>5. "mineur" \in Names /\ "permis" \in Names /\ "Majeur" \in Keys
  BY DEF Names, Keys
<1>6. \A i \in 1..10 : \/ i = 1 \/ i = 2 \/ i = 3 \/ i = 4 \/ i = 5
                       \/ i = 6 \/ i = 7 \/ i = 8 \/ i = 9 \/ i = 10
  OBVIOUS
<1>7. /\ \A i \in 1..10 : Demo[i].cmd # "post" => Demo[i] \in Commands /\ i \notin {6, 8}
      /\ \A i \in 1..10 : Demo[i].cmd = "post" => i \in {6, 8}
  BY <1>2, <1>3, <1>4, <1>5, <1>6
<1>8. \A i \in 1..10 : Demo[i].cmd = "present" => Demo[i].key = "Majeur"
  BY <1>2, <1>4, <1>6
<1>9. \A i \in 1..10 : Demo[i].name \in Names
  BY <1>2, <1>4, <1>5, <1>6
<1> QED
  BY <1>1, <1>7, <1>8, <1>9

-----------------------------------------------------------------------------
(***************************************************************************)
(* The script, its users and their failures move the store only by steps   *)
(* of its specification.                                                   *)
(***************************************************************************)
LEMMA StepsOfTheTA == InTheScript /\ TypeOK /\ [Next]_vars => [TA!Next]_(TA!vars)
<1> SUFFICES ASSUME InTheScript, TypeOK, [Next]_vars
             PROVE  TA!Next \/ UNCHANGED taVars
  BY DEF taVars, TA!vars, TA!localVars
<1>1. CASE ScriptCalls
  <2>1. Demo[step] \in Commands /\ TA!Invoke(Script, Demo[step])
    BY <1>1, DemoLines DEF ScriptCalls, AtEnd, TypeOK
  <2> QED
    BY <2>1, CommandsAreOps DEF TA!Next
<1>2. CASE ScriptGoesOn
  BY <1>2 DEF ScriptGoesOn, TA!Next
<1>3. CASE ScriptPosts
  BY <1>3 DEF ScriptPosts
<1>4. ASSUME NEW k \in User, UserCalls(k) PROVE TA!Next
  BY <1>4, CommandsAreOps DEF UserCalls, TA!Next
<1>5. ASSUME NEW k \in User, UserGoesOn(k) PROVE TA!Next
  BY <1>5 DEF UserGoesOn, TA!Next
<1>6. CASE TAStep
  BY <1>6 DEF TAStep, TA!Next
<1>7. CASE SessionFails
  BY <1>7 DEF SessionFails, TA!Next
<1>8. CASE UNCHANGED vars
  BY <1>8 DEF vars
<1> QED
  BY <1>1, <1>2, <1>3, <1>4, <1>5, <1>6, <1>7, <1>8 DEF Next, ScriptStep

(***************************************************************************)
(* The two names of the store, that of the demonstration and that of its   *)
(* theorems, are the same specification.                                   *)
(***************************************************************************)
LEMMA SameInit == TA!Init => P!Init
  BY DEF TA!Init, P!Init, TA!Idle, P!Idle, TA!Answer, P!Answer

LEMMA SameNext == [TA!Next]_(TA!vars) => [P!Next]_(P!vars)
  BY DEF TA!vars, P!vars, P!localVars, TA!localVars, TA!Next, P!Next, TA!Op, P!Op,
     TA!Invoke, P!Invoke, TA!OpenSessionFails, P!OpenSessionFails,
     TA!Return, P!Return, TA!Enter, P!Enter, TA!TAStep, P!TAStep,
     TA!MallocId, P!MallocId, TA!MallocData, P!MallocData, TA!Create, P!Create,
     TA!Close, P!Close, TA!OpenRead, P!OpenRead, TA!Read, P!Read,
     TA!Extract, P!Extract, TA!OpenDelete, P!OpenDelete,
     TA!FreeAndLeave, P!FreeAndLeave, TA!Reboot, P!Reboot, TA!Leave, P!Leave,
     TA!Idle, P!Idle, TA!Called, P!Called, TA!Done, P!Done, TA!Answer, P!Answer,
     TA!Lookup, P!Lookup, TA!op, P!op

LEMMA StoreConstants ==
  /\ Absent \notin DOMAIN ProfileAttr /\ Nobody \notin Caller
  /\ \A d \in DOMAIN ProfileAttr : \A key \in DOMAIN ProfileAttr[d] :
        ProfileAttr[d][key] \in {"Martin", "Dupont", "Oui", "Non"}
  BY DemoSentinels, Profiles DEF Caller, Keys

(***************************************************************************)
(* The invariant of the store, in the terms of the demonstration.          *)
(***************************************************************************)
LEMMA StoreTypes == P!IInv => TA!TypeOK
  BY DEF P!IInv, P!TypeOK, TA!TypeOK, P!Idle, TA!Idle, P!Called, TA!Called,
         P!Done, TA!Done, P!Op, TA!Op, P!Out, TA!Out, P!Error, TA!Error

LEMMA StoreTypesNext == P!IInv' => TA!TypeOK'
  BY DEF P!IInv, P!TypeOK, TA!TypeOK, P!Idle, TA!Idle, P!Called, TA!Called,
         P!Done, TA!Done, P!Op, TA!Op, P!Out, TA!Out, P!Error, TA!Error

LEMMA InsideTheTA ==
  ASSUME P!IInv
  PROVE  /\ who = Nobody <=> pc = "idle"
         /\ pc # "idle" => who \in Caller /\ call[who].st = "called"
         /\ pc = "create" => TA!op.cmd = "add"
         /\ pc \in {"read", "extract"} => TA!op.cmd = "present"
         /\ pc = "read" => objects[TA!op.name] # Absent
  BY StoreConstants DEF P!IInv, P!TypeOK, P!OnPath, P!op, TA!op, Caller

LEMMA CallsAre ==
  ASSUME TA!TypeOK, NEW k \in Caller
  PROVE  /\ call \in [Caller -> {TA!Idle} \union {TA!Called(o) : o \in TA!Op}
                                  \union {TA!Done(o) : o \in TA!Out}]
         /\ call[k].st \in {"idle", "called", "done"}
  BY DEF TA!TypeOK, Caller, TA!Idle, TA!Called, TA!Done

\* An answer without an attribute shows none.
LEMMA NothingShown == \A o, res : Shows(o, TA!Answer(res))
  BY DEF Shows, TA!Answer

\* What the TA answers to a presentation of its own profile.
LEMMA OwnAttribute ==
  ASSUME NEW o \in Commands, o.cmd = "present"
  PROVE  Shows(o, TA!Lookup(Profile(o.name), o.key))
<1>1. /\ DOMAIN ProfileAttr[Profile(o.name)] = Keys /\ o.key \in Keys
  BY CommandsAreOps, Profiles
<1>2. TA!Lookup(Profile(o.name), o.key)
        = [res |-> "SUCCESS", value |-> ProfileAttr[Profile(o.name)][o.key]]
  BY <1>1 DEF TA!Lookup
<1> QED
  BY <1>2 DEF Shows

(***************************************************************************)
(* A step inside the TA: documents stay the profiles of their names, and   *)
(* whoever is answered is shown no attribute but the one it asked for.     *)
(***************************************************************************)
Answered ==
    \/ call' = call
    \/ \E k \in Caller : \E answer :
          /\ call[k].st = "called"
          /\ call' = [call EXCEPT ![k] = TA!Done(answer)]
          /\ Shows(call[k].op, answer)

LEMMA TAStepKeeps ==
  ASSUME P!IInv, TypeOK, OwnProfiles, InTheTA,
         TA!TAStep \/ \E k \in Caller : TA!Enter(k) \/ TA!OpenSessionFails(k)
  PROVE  OwnProfiles' /\ InTheTA' /\ Answered
<1> USE DEF Caller
<1>t. TA!TypeOK
  BY DEF TypeOK
<1>1. ASSUME pc # "idle"
      PROVE  /\ who \in Caller /\ call[who].st = "called" /\ TA!op \in Commands
             /\ TA!op.name \in Names /\ TA!op = call[who].op
  BY <1>1, InsideTheTA, CommandsAreOps DEF InTheTA, TA!op
<1>called. ASSUME Answered PROVE \A k \in Caller : call'[k].st = "called" => call'[k].op \in Commands
  BY <1>called, <1>t, CallsAre DEF Answered, TA!Done, InTheTA
<1>leave. ASSUME pc # "idle", NEW answer, NEW freed, TA!Leave(answer, freed),
                 Shows(TA!op, answer), UNCHANGED objects
          PROVE  OwnProfiles' /\ InTheTA' /\ Answered
  <2>1. Answered
    BY <1>leave, <1>1 DEF TA!Leave, Answered
  <2>2. pc' = "idle" /\ objects' = objects
    BY <1>leave DEF TA!Leave
  <2> QED
    BY <2>1, <2>2, <1>called DEF OwnProfiles, InTheTA
<1>stay. ASSUME pc # "idle", UNCHANGED <<call, who>>, OwnProfiles',
                pc' = "extract" => doc' = Profile(TA!op.name),
                pc' \in {"close", "free"} => Shows(TA!op, out')
         PROVE  OwnProfiles' /\ InTheTA' /\ Answered
  <2>1. Answered /\ TA!op' = TA!op
    BY <1>stay DEF Answered, TA!op
  <2> QED
    BY <2>1, <1>stay, <1>called DEF InTheTA
<1>2. CASE TA!MallocId
  <2>1. CASE TA!Leave(TA!Answer("OUT_OF_MEMORY"), 0)
    BY <1>2, <2>1, <1>leave, NothingShown DEF TA!MallocId
  <2>2. CASE ~TA!Leave(TA!Answer("OUT_OF_MEMORY"), 0)
    BY <1>2, <2>2, <1>stay DEF TA!MallocId, OwnProfiles
  <2> QED
    BY <2>1, <2>2
<1>3. CASE TA!MallocData
  <2>1. CASE TA!Leave(TA!Answer("OUT_OF_MEMORY"), 1)
    BY <1>3, <2>1, <1>leave, NothingShown DEF TA!MallocData
  <2>2. CASE ~TA!Leave(TA!Answer("OUT_OF_MEMORY"), 1)
    BY <1>3, <2>2, <1>stay DEF TA!MallocData, OwnProfiles
  <2> QED
    BY <2>1, <2>2
<1>4. CASE TA!Create
  <2>1. TA!op.cmd = "add" /\ TA!op.doc = Profile(TA!op.name) /\ TA!op.name \in Names
    BY <1>4, <1>1, InsideTheTA, CommandsAreOps DEF TA!Create
  <2>2. \/ objects' = [objects EXCEPT ![TA!op.name] = Profile(TA!op.name)]
        \/ objects' = objects
    BY <1>4, <2>1 DEF TA!Create
  <2>3. OwnProfiles'
    BY <1>t, <2>2 DEF OwnProfiles, TA!TypeOK
  <2>4. Shows(TA!op, out') /\ pc' # "extract" /\ UNCHANGED <<call, who>> /\ pc # "idle"
    BY <1>4, NothingShown DEF TA!Create
  <2> QED
    BY <2>3, <2>4, <1>stay
<1>5. CASE TA!Close
  BY <1>5, <1>stay DEF TA!Close, OwnProfiles, InTheTA
<1>6. CASE TA!OpenRead
  <2>1. /\ pc # "idle" /\ pc' # "extract" /\ UNCHANGED <<call, who, objects>>
        /\ pc' \in {"close", "free"} => \E res : out' = TA!Answer(res)
    BY <1>6 DEF TA!OpenRead
  <2> QED
    BY <2>1, <1>stay, NothingShown DEF OwnProfiles
<1>7. CASE TA!Read
  <2>1. objects[TA!op.name] = Profile(TA!op.name)
    BY <1>7, <1>1, InsideTheTA DEF TA!Read, OwnProfiles
  <2>2. /\ pc # "idle" /\ UNCHANGED <<call, who, objects>>
        /\ pc' = "extract" => doc' = objects[TA!op.name]
        /\ pc' \in {"close", "free"} => out' = TA!Answer("CORRUPT_OBJECT")
    BY <1>7 DEF TA!Read
  <2> QED
    BY <2>1, <2>2, <1>stay, NothingShown DEF OwnProfiles
<1>8. CASE TA!Extract
  <2>1. /\ pc # "idle" /\ pc' = "free" /\ UNCHANGED <<call, who, objects>>
        /\ out' = TA!Lookup(doc, TA!op.key) /\ doc = Profile(TA!op.name)
    BY <1>8 DEF TA!Extract, InTheTA
  <2>2. Shows(TA!op, out')
    BY <1>8, <2>1, <1>1, InsideTheTA, OwnAttribute DEF TA!Extract
  <2> QED
    BY <2>1, <2>2, <1>stay DEF OwnProfiles
<1>9. CASE TA!OpenDelete
  <2>1. /\ pc # "idle" /\ pc' = "free" /\ UNCHANGED <<call, who>>
        /\ \E res : out' = TA!Answer(res)
        /\ \/ objects' = [objects EXCEPT ![TA!op.name] = Absent]
           \/ objects' = objects
    BY <1>9 DEF TA!OpenDelete
  <2>2. OwnProfiles'
    BY <1>t, <2>1 DEF OwnProfiles, TA!TypeOK
  <2> QED
    BY <2>1, <2>2, <1>stay, NothingShown
<1>10. CASE TA!FreeAndLeave
  BY <1>10, <1>leave DEF TA!FreeAndLeave, InTheTA
<1>11. ASSUME NEW k \in Caller, TA!Enter(k) PROVE OwnProfiles' /\ InTheTA' /\ Answered
  <2>1. /\ call[k].st = "called" /\ objects' = objects /\ who = Nobody /\ pc = "idle"
        /\ \/ /\ call' = [call EXCEPT ![k] = TA!Done(TA!Answer("BAD_PARAMETERS"))]
              /\ pc' = pc
           \/ call' = call /\ pc' = "malloc_id"
    BY <1>11, InsideTheTA DEF TA!Enter
  <2>2. Answered
    BY <2>1, NothingShown DEF Answered
  <2> QED
    BY <2>1, <2>2, <1>called DEF OwnProfiles, InTheTA
<1>12. ASSUME NEW k \in Caller, TA!OpenSessionFails(k)
       PROVE  OwnProfiles' /\ InTheTA' /\ Answered
  <2>1. /\ call[k].st = "called" /\ k # who /\ UNCHANGED <<objects, who, pc, doc, out>>
        /\ call' = [call EXCEPT ![k] = TA!Done(TA!Answer("OUT_OF_MEMORY"))]
    BY <1>12 DEF TA!OpenSessionFails, TA!localVars
  <2>2. Answered
    BY <2>1, NothingShown DEF Answered
  <2>3. pc # "idle" => TA!op' = TA!op
    BY <1>1, <1>t, <2>1, CallsAre DEF TA!op
  <2> QED
    BY <2>1, <2>2, <2>3, <1>called DEF OwnProfiles, InTheTA
<1> QED
  BY <1>2, <1>3, <1>4, <1>5, <1>6, <1>7, <1>8, <1>9, <1>10, <1>11, <1>12 DEF TA!TAStep

-----------------------------------------------------------------------------
(***************************************************************************)
(* The script.                                                             *)
(***************************************************************************)
LEMMA InitDemoInv == Init => P!IInv /\ DemoInv
<1> SUFFICES ASSUME Init PROVE P!IInv /\ DemoInv
  OBVIOUS
<1>1. TA!Init
  BY DEF Init
<1>2. P!IInv
  BY <1>1, SameInit, StoreConstants, P!InitIInv DEF Caller
<1>3. TypeOK
  BY <1>2, StoreTypes, DemoLines, MaxUserCallsType DEF Init, TypeOK
<1>4. OwnProfiles /\ InTheTA /\ TokenOfItsProfile
  BY <1>1 DEF Init, TA!Init, TA!Idle, OwnProfiles, InTheTA, TokenOfItsProfile
<1>5. call[Script].st = "idle" /\ \A n \in Names : token[n] = Nothing
  BY <1>1 DEF Init, TA!Init, TA!Idle
<1>6. InTheScript
  BY <1>5 DEF InTheScript
<1> QED
  BY <1>2, <1>3, <1>4, <1>6 DEF DemoInv

\* A store step that leaves the script where it is.
LEMMA ScriptWaits ==
  ASSUME TA!TypeOK, TA!TypeOK', InTheScript, InTheTA,
         Answered, UNCHANGED <<step, token>>
  PROVE  InTheScript'
<1>1. Script \in Caller
  BY DEF Caller
<1>2. CASE call' = call
  BY <1>2 DEF InTheScript
<1>3. ASSUME NEW k \in Caller, NEW answer, call[k].st = "called",
             call' = [call EXCEPT ![k] = TA!Done(answer)], Shows(call[k].op, answer)
      PROVE  InTheScript'
  <2>1. CASE k = Script
    <3>1. call'[Script].st = "done" /\ call'[Script].out = answer
      BY <1>1, <1>3, <2>1, CallsAre DEF TA!Done
    <3> QED
      BY <1>3, <2>1, <3>1 DEF InTheScript
  <2>2. CASE k # Script
    <3>1. call'[Script] = call[Script]
      BY <1>1, <1>3, <2>2, CallsAre
    <3> QED
      BY <3>1 DEF InTheScript
  <2> QED
    BY <2>1, <2>2
<1> QED
  BY <1>2, <1>3 DEF Answered

\* What the script substitutes from an answer that shows its own attribute.
LEMMA PrintedAnswer ==
  ASSUME NEW o, NEW answer \in TA!Out, Shows(o, answer)
  PROVE  /\ Printed(answer) \in {Nothing, "Martin", "Dupont", "Oui", "Non"}
         /\ Printed(answer) \in {Nothing, ProfileAttr[Profile(o.name)][o.key]}
<1>1. "value" \in DOMAIN answer => answer.value \in {"Martin", "Dupont", "Oui", "Non"}
  BY DEF TA!Out
<1> QED
  BY <1>1 DEF Printed, Shows

\* Only the call of one client is changed, by itself.
LEMMA OwnCall ==
  ASSUME P!IInv, InTheTA, OwnProfiles, NEW k \in Caller, NEW c,
         call[k].st # "called", c.st = "called" => c.op \in Commands,
         call' = [call EXCEPT ![k] = c], UNCHANGED <<objects, who, pc, doc, out>>
  PROVE  /\ OwnProfiles' /\ InTheTA'
         /\ \A j \in Caller \ {k} : call'[j] = call[j]
         /\ call'[k] = c
<1>1. \A j \in Caller : call'[j] = IF j = k THEN c ELSE call[j]
  BY StoreTypes, CallsAre
<1>2. pc # "idle" => who \in Caller /\ who # k
  BY InsideTheTA
<1>3. pc # "idle" => TA!op' = TA!op
  BY <1>1, <1>2 DEF TA!op
<1> QED
  BY <1>1, <1>3 DEF OwnProfiles, InTheTA, Caller

LEMMA NextDemoInv == P!IInv /\ DemoInv /\ [Next]_vars => P!IInv' /\ DemoInv'
<1> SUFFICES ASSUME P!IInv, DemoInv, [Next]_vars PROVE P!IInv' /\ DemoInv'
  OBVIOUS
<1>t. TypeOK /\ OwnProfiles /\ InTheTA /\ InTheScript /\ TokenOfItsProfile /\ TA!TypeOK
  BY DEF DemoInv, TypeOK
<1>p. P!IInv' /\ TA!TypeOK'
  <2>1. [P!Next]_(P!vars)
    BY <1>t, StepsOfTheTA, SameNext
  <2>2. P!IInv'
    BY <2>1, StoreConstants, P!NextIInv DEF Caller
  <2> QED
    BY <2>2, StoreTypesNext
<1>s. Script \in Caller /\ Script \notin User /\ User \subseteq Caller
  BY ScriptNotUser DEF Caller
<1>1. CASE ScriptCalls
  <2>1. /\ step \in 1..10 /\ Demo[step].cmd # "post" /\ Demo[step] \in Commands
        /\ call[Script] = TA!Idle
        /\ call' = [call EXCEPT ![Script] = TA!Called(Demo[step])]
        /\ UNCHANGED <<objects, who, pc, doc, out, step, token, posted, userCalls>>
    BY <1>1, <1>t, DemoLines DEF ScriptCalls, TypeOK, AtEnd, TA!Invoke, TA!localVars
  <2>2. /\ TA!Called(Demo[step]).st = "called" /\ TA!Called(Demo[step]).op = Demo[step]
        /\ call[Script].st # "called"
    BY <2>1 DEF TA!Called, TA!Idle
  <2>3. OwnProfiles' /\ InTheTA' /\ call'[Script] = TA!Called(Demo[step])
    BY <1>t, <1>s, <2>1, <2>2, OwnCall
  <2>4. InTheScript'
    BY <1>t, <2>1, <2>2, <2>3, DemoLines DEF InTheScript
  <2> QED
    BY <1>t, <1>p, <2>1, <2>3, <2>4 DEF DemoInv, TypeOK, TokenOfItsProfile
<1>2. CASE ScriptGoesOn
  <2>1. /\ step \in 1..10 /\ step' = step + 1 /\ call[Script].st = "done"
        /\ call' = [call EXCEPT ![Script] = TA!Idle]
        /\ token' = IF Demo[step].cmd = "present"
                    THEN [token EXCEPT ![Demo[step].name] = Printed(call[Script].out)]
                    ELSE token
        /\ UNCHANGED <<objects, who, pc, doc, out, posted, userCalls>>
    BY <1>2, <1>t, DemoLines DEF ScriptGoesOn, Substituted, TypeOK, AtEnd, TA!Return, TA!localVars
  <2>2. TA!Idle.st = "idle"
    BY DEF TA!Idle
  <2>3. OwnProfiles' /\ InTheTA' /\ call'[Script] = TA!Idle
    BY <1>t, <1>s, <2>1, <2>2, OwnCall
  <2>4. call[Script].out \in TA!Out /\ Shows(Demo[step], call[Script].out)
    <3>1. call[Script].out \in TA!Out
      BY <1>t, <1>s, <2>1, CallsAre DEF TA!Idle, TA!Called, TA!Done
    <3> QED
      BY <1>t, <2>1, <3>1 DEF InTheScript
  <2>5. ASSUME Demo[step].cmd = "present"
        PROVE  /\ token' \in [Names -> {Nothing, "Martin", "Dupont", "Oui", "Non"}]
               /\ \A m \in Names : token'[m] \in {Nothing, ProfileAttr[Profile(m)]["Majeur"]}
    <3> DEFINE n == Demo[step].name
               print == Printed(call[Script].out)
    <3>1. n \in Names /\ Demo[step].key = "Majeur"
      BY <2>1, <2>5, DemoLines
    <3>2. /\ print \in {Nothing, "Martin", "Dupont", "Oui", "Non"}
          /\ print \in {Nothing, ProfileAttr[Profile(n)]["Majeur"]}
      BY <2>4, <3>1, PrintedAnswer
    <3>3. token' = [token EXCEPT ![n] = print]
      BY <2>1, <2>5
    <3> HIDE DEF n, print
    <3>4. token' \in [Names -> {Nothing, "Martin", "Dupont", "Oui", "Non"}]
      BY <1>t, <3>1, <3>2, <3>3 DEF TypeOK
    <3>5. \A m \in Names : token'[m] = IF m = n THEN print ELSE token[m]
      BY <1>t, <3>1, <3>3 DEF TypeOK
    <3>6. \A m \in Names : token'[m] \in {Nothing, ProfileAttr[Profile(m)]["Majeur"]}
      BY <1>t, <3>2, <3>5 DEF InTheScript
    <3> QED
      BY <3>4, <3>6
  <2>6. /\ token' \in [Names -> {Nothing, "Martin", "Dupont", "Oui", "Non"}]
        /\ \A m \in Names : token'[m] \in {Nothing, ProfileAttr[Profile(m)]["Majeur"]}
    BY <1>t, <2>1, <2>5 DEF TypeOK, InTheScript
  <2>7. InTheScript'
    BY <2>2, <2>3, <2>6 DEF InTheScript
  <2>8. step' \in 1..(Len(Demo) + 1)
    BY <2>1, DemoLines
  <2> QED
    BY <1>t, <1>p, <2>1, <2>3, <2>6, <2>7, <2>8 DEF DemoInv, TypeOK, TokenOfItsProfile
<1>3. CASE ScriptPosts
  <2>1. /\ step \in {6, 8} /\ step' = step + 1
        /\ UNCHANGED <<objects, call, who, pc, doc, out, token, userCalls>>
        /\ \/ posted' = posted \union {[name |-> Demo[step].name,
                                        token |-> token[Demo[step].name],
                                        granted |-> Authorised(token[Demo[step].name])]}
           \/ posted' = posted
    BY <1>3, <1>t, DemoLines DEF ScriptPosts, TypeOK, AtEnd, taVars
  <2>2. TokenOfItsProfile' /\ \A p \in posted' : p.name \in Names
    <3> DEFINE n == Demo[step].name
    <3>1. n \in Names
      BY <2>1, DemoLines
    <3>2. token[n] \in {Nothing, ProfileAttr[Profile(n)]["Majeur"]}
      BY <1>t, <3>1 DEF InTheScript
    <3>3. /\ n = "permis" => token[n] \in {Nothing, "Oui"}
          /\ n = "mineur" => token[n] \in {Nothing, "Non"}
      BY <3>2, Profiles DEF Profile
    <3> QED
      BY <1>t, <2>1, <3>1, <3>3 DEF TokenOfItsProfile, TypeOK
  <2>3. call[Script].st = "idle"
    <3>1. Demo[step].cmd = "post"
      BY <1>3 DEF ScriptPosts
    <3> QED
      BY <1>t, <1>s, <3>1, CallsAre DEF InTheScript
  <2>4. InTheScript'
    BY <1>t, <2>1, <2>3 DEF InTheScript
  <2>5. step' \in 1..(Len(Demo) + 1) /\ OwnProfiles' /\ InTheTA'
    BY <1>t, <2>1, DemoLines DEF OwnProfiles, InTheTA, TA!op
  <2> QED
    BY <1>t, <1>p, <2>1, <2>2, <2>4, <2>5 DEF DemoInv, TypeOK
<1>4. ASSUME NEW k \in User, UserCalls(k) PROVE DemoInv'
  <2>1. PICK o \in Commands :
           /\ call[k] = TA!Idle /\ call' = [call EXCEPT ![k] = TA!Called(o)]
           /\ UNCHANGED <<objects, who, pc, doc, out, step, token, posted>>
           /\ userCalls < MaxUserCalls /\ userCalls' = userCalls + 1
    BY <1>4 DEF UserCalls, TA!Invoke, TA!localVars
  <2>2. /\ TA!Called(o).st = "called" /\ TA!Called(o).op = o
        /\ call[k].st # "called"
    BY <2>1 DEF TA!Called, TA!Idle
  <2>3. OwnProfiles' /\ InTheTA' /\ call'[Script] = call[Script]
    BY <1>4, <1>t, <1>s, <2>1, <2>2, OwnCall
  <2>4. InTheScript'
    BY <1>t, <2>1, <2>3 DEF InTheScript
  <2>5. userCalls' \in 0..MaxUserCalls
    BY <1>t, <2>1, MaxUserCallsType DEF TypeOK
  <2> QED
    BY <1>t, <1>p, <2>1, <2>3, <2>4, <2>5 DEF DemoInv, TypeOK, TokenOfItsProfile
<1>5. ASSUME NEW k \in User, UserGoesOn(k) PROVE DemoInv'
  <2>1. /\ call[k].st = "done" /\ call' = [call EXCEPT ![k] = TA!Idle]
        /\ UNCHANGED <<objects, who, pc, doc, out, step, token, posted, userCalls>>
    BY <1>5 DEF UserGoesOn, TA!Return, TA!localVars
  <2>2. TA!Idle.st = "idle"
    BY DEF TA!Idle
  <2>3. OwnProfiles' /\ InTheTA' /\ call'[Script] = call[Script]
    BY <1>5, <1>t, <1>s, <2>1, <2>2, OwnCall
  <2>4. InTheScript'
    BY <1>t, <2>1, <2>3 DEF InTheScript
  <2> QED
    BY <1>t, <1>p, <2>1, <2>3, <2>4 DEF DemoInv, TypeOK, TokenOfItsProfile
<1>6. CASE TAStep \/ SessionFails
  <2>1. /\ TA!TAStep \/ \E k \in Caller : TA!Enter(k) \/ TA!OpenSessionFails(k)
        /\ UNCHANGED <<step, token, posted, userCalls>>
    BY <1>6 DEF TAStep, SessionFails, Caller
  <2>2. OwnProfiles' /\ InTheTA' /\ Answered
    BY <1>t, <2>1, TAStepKeeps
  <2>3. InTheScript'
    BY <1>t, <1>p, <2>1, <2>2, ScriptWaits
  <2> QED
    BY <1>t, <1>p, <2>1, <2>2, <2>3 DEF DemoInv, TypeOK, TokenOfItsProfile
<1>7. CASE UNCHANGED vars
  BY <1>7, <1>t, <1>p DEF vars, taVars, DemoInv, TypeOK, OwnProfiles, InTheTA, InTheScript,
                         TokenOfItsProfile, TA!op
<1> QED
  BY <1>p, <1>1, <1>2, <1>3, <1>4, <1>5, <1>6, <1>7 DEF Next, ScriptStep

(***************************************************************************)
(* The two invariants hold together: that of the store is used for what    *)
(* the command inside the TA is, that of the demonstration for what is     *)
(* called.                                                                 *)
(***************************************************************************)
THEOREM Invariance == Spec => [](P!IInv /\ DemoInv)
  BY InitDemoInv, NextDemoInv, PTL DEF Spec

(***************************************************************************)
(* Every variable keeps its type.                                          *)
(***************************************************************************)
THEOREM TypeCorrect == Spec => []TypeOK
<1>1. DemoInv => TypeOK
  BY DEF DemoInv
<1> QED
  BY <1>1, Invariance, PTL

(***************************************************************************)
(* The verifier (python_server/verifier.py) never receives the attribute   *)
(* of one profile under the name of the other, whichever command of        *)
(* demo.sh failed and whatever other processes added, presented or deleted *)
(* in between.                                                             *)
(***************************************************************************)
THEOREM ProofsOfTheirProfiles == Spec => []TokenOfItsProfile
<1>1. DemoInv => TokenOfItsProfile
  BY DEF DemoInv
<1> QED
  BY <1>1, Invariance, PTL

(***************************************************************************)
(* The demonstration runs the document store as its specification says.    *)
(***************************************************************************)
THEOREM UsesStore == Spec => TA!Spec
<1>1. Init => TA!Init
  BY DEF Init
<1>2. DemoInv /\ [Next]_vars => [TA!Next]_(TA!vars)
  BY StepsOfTheTA DEF DemoInv
<1> QED
  BY <1>1, <1>2, Invariance, PTL DEF Spec, TA!Spec

(***************************************************************************)
(* Each command of demo.sh and of the users beside it (host/main.c) takes  *)
(* effect on the documents at one instant, or fails and changes nothing:   *)
(* what they see together is a behaviour of DocumentStore.                 *)
(***************************************************************************)
THEOREM CommandsLinearise == Spec => P!ImplementsStore
<1>1. P!Spec => P!ImplementsStore
  BY StoreConstants, P!StoreRefinement DEF Caller
<1> QED
  BY <1>1, SameInit, SameNext, UsesStore, PTL DEF TA!Spec, P!Spec

=============================================================================
