----------------------------- MODULE NativeSignIn -----------------------------
(* The access token a native program starts with (xo/src/oauth.rs, central_client.rs).  *)
(*                                                                                      *)
(* Every program reads ~/.config/xo/auth.json as a whole, may refresh the token of its  *)
(* server, and writes the file as a whole.  The provider gives a new refresh token and   *)
(* forgets the old one, or gives none.  A token is a number; 0 is none.                  *)
EXTENDS Naturals, FiniteSets

CONSTANTS
    Programs,      \* programs of one person (terminals, command-line calls)
    Servers,       \* the servers they use, one each
    UsesServer,    \* the server of each program
    SignInBudget   \* bound: tokens issued, expiries, failures, stops, starts of each program

ASSUME SignInAssumption ==
    /\ \A p \in Programs : UsesServer[p] \in Servers
    /\ SignInBudget \subseteq [tokens : Nat, expiries : Nat, failures : Nat, stops : Nat,
                              starts : Nat, issued : {0}]

VARIABLES
    authFile,   \* auth.json: access and refresh token of each server
    program,    \* where access_token is in each program
    alive,      \* the refresh token the provider takes from each server's users; 0 if none
    valid,      \* access tokens that have not expired
    excused,    \* servers whose entry a step named in StaysSignedIn has spoiled
    left        \* remaining budget; the number of tokens issued

signInVars == <<authFile, program, alive, valid, excused, left>>

NoToken == [access |-> 0, refresh |-> 0]
Out == [at |-> "out", copy |-> [s \in Servers |-> NoToken], got |-> NoToken]

Server1(p) == UsesServer[p]
Saved(p) == program[p].copy[Server1(p)]
Step(p, at) == program' = [program EXCEPT ![p].at = at]

\* access_token: the store is loaded first, and later written as it was loaded.
Start(p) ==
    /\ program[p].at = "out" /\ left.starts > 0
    /\ program' = [program EXCEPT ![p] = [at |-> "discover", copy |-> authFile,
                                          got |-> NoToken]]
    /\ left' = [left EXCEPT !.starts = @ - 1]
    /\ UNCHANGED <<authFile, alive, valid, excused>>

\* The server's configuration and the provider's: if either cannot be had, the saved access
\* token is used whether or not it has expired.
Discover(p) ==
    /\ program[p].at = "discover"
    /\ \/ /\ Step(p, IF Saved(p).access \in valid THEN "running"
                     ELSE IF Saved(p).refresh # 0 THEN "refresh" ELSE "login")
          /\ UNCHANGED left
       \/ /\ left.failures > 0
          /\ Step(p, "running")
          /\ left' = [left EXCEPT !.failures = @ - 1]
    /\ UNCHANGED <<authFile, alive, valid, excused>>

\* A token issued while another program has one of the same server still to save: either may
\* be written last.  Otherwise the new entry makes up for whatever was spoiled.
Supersedes(p) ==
    excused' = IF \E q \in Programs \ {p} : program[q].at = "save" /\ Server1(q) = Server1(p)
               THEN excused \cup {Server1(p)} ELSE excused \ {Server1(p)}

\* A refresh token that the provider leaves out is forgotten.
Issue_Forgetting(p, old) ==
    /\ left.issued + 2 <= left.tokens
    /\ \E refresh \in {old, left.issued + 2} :
          /\ alive' = [alive EXCEPT ![Server1(p)] = refresh]
          /\ program' = [program EXCEPT ![p].at = "save",
                            ![p].got = [access |-> left.issued + 1,
                                        refresh |-> IF refresh = old THEN 0 ELSE refresh]]
    /\ Supersedes(p)
    /\ valid' = valid \cup {left.issued + 1}
    /\ left' = [left EXCEPT !.issued = @ + 2]

\* The provider issues tokens; without a new refresh token saved_token keeps the old one.
Issue(p, old) ==
    /\ left.issued + 2 <= left.tokens
    /\ \E refresh \in {old, left.issued + 2} :
          /\ alive' = [alive EXCEPT ![Server1(p)] = refresh]
          /\ program' = [program EXCEPT ![p].at = "save",
                            ![p].got = [access |-> left.issued + 1, refresh |-> refresh]]
    /\ Supersedes(p)
    /\ valid' = valid \cup {left.issued + 1}
    /\ left' = [left EXCEPT !.issued = @ + 2]

\* refresh: a token the provider takes is exchanged, keeping the one used when none is
\* returned; otherwise, or when it cannot be reached, the person has to log in.
Refresh(p) ==
    /\ program[p].at = "refresh"
    /\ \/ /\ Saved(p).refresh = alive[Server1(p)]
          /\ Issue(p, Saved(p).refresh)
       \/ /\ Saved(p).refresh # alive[Server1(p)] \/ left.failures > 0
          /\ Step(p, "login")
          /\ left' = [left EXCEPT !.failures = IF @ > 0 THEN @ - 1 ELSE 0]
          /\ UNCHANGED <<alive, valid, excused>>
    /\ UNCHANGED authFile

\* authorize_code: the browser's callback brings a code that is exchanged for tokens, or the
\* login fails: no terminal, a timeout, an unexpected callback, a refused exchange.
Login(p) ==
    /\ program[p].at = "login"
    /\ \/ Issue(p, 0)
       \/ /\ program' = [program EXCEPT ![p] = Out]
          /\ UNCHANGED <<alive, valid, excused, left>>
    /\ UNCHANGED authFile

\* The provider exchanged the refresh token or the code and its answer is lost, or is not
\* what TokenResponse can be read from: a refresh goes on to the login, a login fails.
AnswerLost(p) ==
    /\ left.failures > 0 /\ left.issued + 2 <= left.tokens
    /\ \/ /\ program[p].at = "refresh" /\ Saved(p).refresh = alive[Server1(p)]
          /\ Step(p, "login")
       \/ /\ program[p].at = "login"
          /\ program' = [program EXCEPT ![p] = Out]
    /\ alive' = [alive EXCEPT ![Server1(p)] = left.issued + 2]
    /\ excused' = excused \cup {Server1(p)}
    /\ left' = [left EXCEPT !.failures = @ - 1, !.issued = @ + 2]
    /\ UNCHANGED <<authFile, valid>>

\* save_store writes everything that was loaded at the start, with the new entry: an entry
\* that another program has written since is written back.
SaveStore(p) ==
    /\ program[p].at = "save"
    /\ authFile' = [program[p].copy EXCEPT ![Server1(p)] = program[p].got]
    /\ excused' = excused \cup {s \in Servers \ {Server1(p)} : program[p].copy[s] # authFile[s]}
    /\ Step(p, "running")
    /\ UNCHANGED <<alive, valid, left>>

\* The program ends; one that stops between the provider's answer and the save, or fails to
\* save, takes the new refresh token with it.
Stop(p) ==
    /\ program[p].at # "out"
    /\ program[p].at # "running" => left.stops > 0
    /\ program' = [program EXCEPT ![p] = Out]
    /\ excused' = IF program[p].at = "save" THEN excused \cup {Server1(p)} ELSE excused
    /\ left' = [left EXCEPT !.stops = IF program[p].at = "running" THEN @ ELSE @ - 1]
    /\ UNCHANGED <<authFile, alive, valid>>

Expire(t) ==
    /\ t \in valid /\ left.expiries > 0
    /\ valid' = valid \ {t}
    /\ left' = [left EXCEPT !.expiries = @ - 1]
    /\ UNCHANGED <<authFile, program, alive, excused>>

SignInInit ==
    /\ authFile = [s \in Servers |-> NoToken]
    /\ program = [p \in Programs |-> Out]
    /\ alive = [s \in Servers |-> 0] /\ valid = {} /\ excused = {}
    /\ left \in SignInBudget

SignInNext ==
    \/ \E p \in Programs : \/ Start(p) \/ Discover(p) \/ Refresh(p) \/ Login(p)
                           \/ AnswerLost(p) \/ SaveStore(p) \/ Stop(p)
    \/ \E t \in 1 .. left.issued : Expire(t)

SignInSpec == SignInInit /\ [][SignInNext]_signInVars

-----------------------------------------------------------------------------
(* Properties *)

SignInTypeOK ==
    /\ authFile \in [Servers -> [access : 0 .. left.issued, refresh : 0 .. left.issued]]
    /\ \A p \in Programs : program[p].at \in
          {"out", "discover", "refresh", "login", "save", "running"}
    /\ alive \in [Servers -> 0 .. left.issued] /\ valid \subseteq 1 .. left.issued

\* The refresh token in the file is one the provider takes, or is about to be replaced by
\* it, whatever programs run at once.  Four steps spoil an entry and nothing else does: the
\* answer to an exchange is lost, a program stops or fails before it saves, tokens are issued
\* while another program has still to save its own, and a save writes back an entry that was
\* written since it was loaded.  The next tokens issued make up for it (oauth.rs:88-121).
StaysSignedIn ==
    \A s \in Servers :
        \/ s \in excused
        \/ \E p \in Programs : program[p].at = "save" /\ Server1(p) = s
        \/ authFile[s].refresh = alive[s]
=============================================================================
