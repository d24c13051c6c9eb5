----------------------------- MODULE WalletDemo -----------------------------
(***************************************************************************)
(* The wallet demonstration: the script python_server/demo.sh, which runs  *)
(* one command of the host program optee_examples/storage_data/host/main.c *)
(* after the other and posts what it printed to the verifier               *)
(* python_server/verifier.py, on a TA (module StorageData) that a user of  *)
(* the same machine may call at the same time.                             *)
(*                                                                         *)
(* A command of the host program is one call of the store: the session it  *)
(* opens, its invocation, and what it prints once it has returned.         *)
(***************************************************************************)
EXTENDS Naturals, Sequences

CONSTANTS
    Script,         \* the process of demo.sh
    User,           \* other processes that run the host program
    MaxUserCalls,   \* bound: how many commands they run
    Absent, Nobody  \* as in StorageData

ASSUME ScriptNotUser == Script \notin User
ASSUME MaxUserCallsType == MaxUserCalls \in Nat
ASSUME DemoSentinels ==
    Absent \notin {"Martin", "Dupont"} /\ Nobody \notin User \union {Script}

VARIABLES
    objects, call, who, pc, doc, out, blocks, handle,   \* the TA
    step,       \* the command demo.sh is at
    token,      \* TOKEN_MAJEUR and TOKEN_MINEUR, by the name that is presented
    posted,     \* history: the proofs the verifier received, and its decision
    userCalls   \* how many commands users have run

taVars == <<objects, call, who, pc, doc, out, blocks, handle>>
vars   == <<taVars, step, token, posted, userCalls>>

-----------------------------------------------------------------------------
(***************************************************************************)
(* The host program                                                        *)
(***************************************************************************)
Names == {"mineur", "permis"}
Keys  == {"Nom", "Majeur"}

\* The profile that `add` fills in for a name: "mineur" has one of its own.
Profile(name) == IF name = "mineur" THEN "Martin" ELSE "Dupont"

ProfileAttr ==
    [d \in {"Martin", "Dupont"} |->
        [Nom |-> d, Majeur |-> IF d = "Martin" THEN "Non" ELSE "Oui"]]

TA == INSTANCE StorageData
      WITH Client <- User \union {Script},
           Name <- Names, Doc <- DOMAIN ProfileAttr, Key <- Keys,
           Value <- {"Martin", "Dupont", "Oui", "Non"}, Attr <- ProfileAttr

\* The commands of the program, with the buffers they pass.
add(name)          == [cmd |-> "add", name |-> name, doc |-> Profile(name), exact |-> TRUE]
present(name, key) == [cmd |-> "present", name |-> name, key |-> key]
delete(name)       == [cmd |-> "delete", name |-> name]

Commands ==
    {add(n) : n \in Names} \union {delete(n) : n \in Names}
        \union {present(n, key) : n \in Names, key \in Keys}

Nothing == ""

\* Faulty variant: the error message goes to stdout.
PrintedWithErrors(answer) == IF "value" \in DOMAIN answer THEN answer.value ELSE answer.res

\* What `present` leaves on stdout: the attribute, or nothing.
Printed(answer) == IF "value" \in DOMAIN answer THEN answer.value ELSE Nothing

-----------------------------------------------------------------------------
(***************************************************************************)
(* The verifier                                                            *)
(***************************************************************************)

\* do_POST prints the token it got and authorises the access.
Authorised(tok) == TRUE

-----------------------------------------------------------------------------
(***************************************************************************)
(* The script                                                              *)
(***************************************************************************)
Post(name) == [cmd |-> "post", name |-> name]

Demo == <<
    delete("mineur"), delete("permis"),
    add("mineur"), add("permis"),
    present("permis", "Majeur"), Post("permis"),
    present("mineur", "Majeur"), Post("mineur"),
    delete("permis"), delete("mineur") >>

AtEnd == step > Len(Demo)

Init ==
    /\ TA!Init
    /\ step = 1
    /\ token = [n \in Names |-> Nothing]
    /\ posted = {}
    /\ userCalls = 0

ScriptCalls ==
    /\ ~AtEnd
    /\ Demo[step].cmd # "post"
    /\ TA!Invoke(Script, Demo[step])
    /\ UNCHANGED <<step, token, posted, userCalls>>

\* What the substitutions of the two presentations leave in the variables.
Substituted ==
    IF Demo[step].cmd = "present"
    THEN [token EXCEPT ![Demo[step].name] = Printed(call[Script].out)]
    ELSE token

\* Faulty variant: both scenarios use one variable, and a presentation that
\* printed nothing does not set it.
ScriptGoesOnSharesToken ==
    /\ ~AtEnd
    /\ TA!Return(Script)
    /\ token' = IF /\ Demo[step].cmd = "present"
                   /\ Printed(call[Script].out) # Nothing
                THEN [n \in Names |-> Printed(call[Script].out)] ELSE token
    /\ step' = step + 1
    /\ UNCHANGED <<posted, userCalls>>

\* Faulty variant: a command is repeated until it succeeds.
ScriptGoesOnAfterSuccess ==
    /\ ~AtEnd
    /\ TA!Return(Script)
    /\ token' = Substituted
    /\ step' = IF call[Script].out.res = "SUCCESS" THEN step + 1 ELSE step
    /\ UNCHANGED <<posted, userCalls>>

\* The exit code is never looked at; $(...) takes what was printed.
ScriptGoesOn ==
    /\ ~AtEnd
    /\ TA!Return(Script)
    /\ token' = Substituted
    /\ step' = step + 1
    /\ UNCHANGED <<posted, userCalls>>

\* wget: the verifier may be unreachable.
ScriptPosts ==
    /\ ~AtEnd
    /\ Demo[step].cmd = "post"
    /\ \/ LET name == Demo[step].name IN
          posted' = posted \union {[name |-> name, token |-> token[name],
                                    granted |-> Authorised(token[name])]}
       \/ UNCHANGED posted
    /\ step' = step + 1
    /\ UNCHANGED <<taVars, token, userCalls>>

UserCalls(k) ==
    /\ userCalls < MaxUserCalls
    /\ \E c \in Commands : TA!Invoke(k, c)
    /\ userCalls' = userCalls + 1
    /\ UNCHANGED <<step, token, posted>>

UserGoesOn(k) ==
    /\ TA!Return(k)
    /\ UNCHANGED <<step, token, posted, userCalls>>

TAStep ==
    /\ \/ \E k \in User \union {Script} : TA!Enter(k)
       \/ TA!TAStep
    /\ UNCHANGED <<step, token, posted, userCalls>>

SessionFails ==
    /\ \E k \in User \union {Script} : TA!OpenSessionFails(k)
    /\ UNCHANGED <<step, token, posted, userCalls>>

ScriptStep == ScriptCalls \/ ScriptGoesOn \/ ScriptPosts

Next ==
    \/ ScriptStep \/ TAStep \/ SessionFails
    \/ \E k \in User : UserCalls(k) \/ UserGoesOn(k)
    \/ AtEnd /\ UNCHANGED vars

Spec == Init /\ [][Next]_vars

\* The script and the secure world keep running; users need not.
FairSpec == Spec /\ WF_vars(ScriptStep) /\ WF_vars(TAStep)

-----------------------------------------------------------------------------
(***************************************************************************)
(* Properties                                                              *)
(***************************************************************************)

\* Every variable keeps its type.
TypeOK ==
    /\ TA!TypeOK
    /\ step \in 1..(Len(Demo) + 1)
    /\ token \in [Names -> {Nothing, "Martin", "Dupont", "Oui", "Non"}]
    /\ \A p \in posted : p.name \in Names
    /\ userCalls \in 0..MaxUserCalls

\* The verifier never gets the proof of one profile in the name of the
\* other: neither a user adding, deleting and presenting in between, nor a
\* failed presentation, passes the adult's "Oui" off as the minor's.
TokenOfItsProfile ==
    \A p \in posted :
        /\ p.name = "mineur" => p.token \in {Nothing, "Non"}
        /\ p.name = "permis" => p.token \in {Nothing, "Oui"}

\* An answer to a presentation shows the attribute that was asked for, of
\* the profile that goes with the name, and any other answer shows none.
Shows(o, answer) ==
    "value" \in DOMAIN answer =>
        o.cmd = "present" /\ answer.value = ProfileAttr[Profile(o.name)][o.key]

\* Whoever added it, a document is the profile that goes with its name.
OwnProfiles == \A n \in Names : objects[n] \in {Absent, Profile(n)}

\* What clients call, and what the TA holds of the command inside it.
InTheTA ==
    /\ \A k \in User \union {Script} : call[k].st = "called" => call[k].op \in Commands
    /\ pc = "extract" => doc = Profile(TA!op.name)
    /\ pc \in {"close", "free"} => Shows(TA!op, out)

\* The call of the script is the command it is at, and each variable holds
\* what the presentation of its profile printed, if anything.
InTheScript ==
    /\ call[Script].st # "idle" => step <= Len(Demo) /\ Demo[step].cmd # "post"
    /\ call[Script].st = "called" => call[Script].op = Demo[step]
    /\ call[Script].st = "done" => Shows(Demo[step], call[Script].out)
    /\ \A n \in Names : token[n] \in {Nothing, ProfileAttr[Profile(n)]["Majeur"]}

\* The inductive invariant of WalletDemoProofs, beside that of the TA.
DemoInv == TypeOK /\ OwnProfiles /\ InTheTA /\ InTheScript /\ TokenOfItsProfile

\* The script reaches its last line, whatever fails on the way.
DemoEnds == <>AtEnd

\* demo.sh:61, "Documents definitivement detruits": when it is printed, and
\* nobody else has called the store, no document is left.
\* Violated: main.c:78-79 reports success without looking at the result.
DocumentsDestroyed ==
    AtEnd /\ userCalls = 0 => \A n \in Names : objects[n] = Absent

=============================================================================
