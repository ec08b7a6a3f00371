------------------------------ MODULE Accounts ------------------------------
(***************************************************************************)
(* manage.py create-user: one user name, several operators who each create  *)
(* it with a password of their own, in the database DATABASE_URL names and, *)
(* through docker exec, in the one of the web container.                    *)
(*                                                                          *)
(* A command is a SELECT and an INSERT in a READ COMMITTED transaction,     *)
(* then the same once more inside the container, whose own call of          *)
(* _create_in_docker raises: the image has no docker command.               *)
(***************************************************************************)
EXTENDS Naturals

CONSTANTS
    Operators,  \* who runs manage.py; stands for the password as well
    NoAccount   \* the users table has no row of that name

ASSUME NoAccountIsNoOperator == NoAccount \notin Operators

VARIABLES
    account,  \* per database, whose password opens the account
    cli,      \* per operator, the next step of the command
    localOk,  \* what _create_in_local has returned: TRUE, FALSE or None
    inner,    \* whether the command in the container has inserted the row
    rc,       \* exit code of the command, NoCode before it ends
    lost      \* history: whose account went with the users table

accountsVars == <<account, cli, localOk, inner, rc, lost>>

Databases == {"local", "docker"}
NoCode == 9

CliSteps == {"idle", "local", "insert", "docker", "inside", "innerInsert", "ended"}

AccountsInit ==
    /\ account = [d \in Databases |-> NoAccount]
    /\ cli = [o \in Operators |-> "idle"]
    /\ localOk = [o \in Operators |-> "none"]
    /\ inner = [o \in Operators |-> FALSE]
    /\ rc = [o \in Operators |-> NoCode]
    /\ lost = {}

CreateUser(o) ==
    /\ cli[o] = "idle"
    /\ cli' = [cli EXCEPT ![o] = "local"]
    /\ UNCHANGED <<account, localOk, inner, rc, lost>>

LocalReturns(o, result) ==
    /\ localOk' = [localOk EXCEPT ![o] = result]
    /\ cli' = [cli EXCEPT ![o] = "docker"]
    /\ UNCHANGED <<inner, rc, lost>>

(* No connection, or any other database error. *)
LocalFails(o) ==
    /\ cli[o] \in {"local", "insert"}
    /\ LocalReturns(o, "False")
    /\ UNCHANGED account

(* SELECT 1 FROM users; without a users table it fails. *)
LocalCheck(o, usersExist) ==
    /\ cli[o] = "local"
    /\ usersExist
    /\ IF account["local"] # NoAccount
         THEN LocalReturns(o, "None")
         ELSE /\ cli' = [cli EXCEPT ![o] = "insert"]
              /\ UNCHANGED <<localOk, inner, rc, lost>>
    /\ UNCHANGED account

(* Fault: INSERT ... ON CONFLICT (username) DO UPDATE. *)
FaultLocalInsert(o, usersExist) ==
    /\ cli[o] = "insert"
    /\ usersExist
    /\ account' = [account EXCEPT !["local"] = o]
    /\ LocalReturns(o, "True")

(* The name is UNIQUE: a second INSERT fails. *)
LocalInsert(o, usersExist) ==
    /\ cli[o] = "insert"
    /\ usersExist
    /\ account["local"] = NoAccount
    /\ account' = [account EXCEPT !["local"] = o]
    /\ LocalReturns(o, "True")

LocalDuplicate(o) ==
    /\ cli[o] = "insert"
    /\ account["local"] # NoAccount
    /\ LocalReturns(o, "False")
    /\ UNCHANGED account

(* create_user's last lines. *)
ExitCode(local, docker) ==
    IF local = "True" \/ docker THEN 0 ELSE IF local = "None" THEN 1 ELSE 2

Exit(o, code) ==
    /\ rc' = [rc EXCEPT ![o] = code]
    /\ cli' = [cli EXCEPT ![o] = "ended"]
    /\ UNCHANGED <<localOk, inner, lost>>

(* subprocess.run raises when the host has no docker command: a traceback,  *)
(* whatever the local database has done.                                    *)
NoDockerCommand(o) ==
    /\ cli[o] = "docker"
    /\ Exit(o, 1)
    /\ UNCHANGED account

DockerNotRunning(o) ==
    /\ cli[o] = "docker"
    /\ Exit(o, ExitCode(localOk[o], FALSE))
    /\ UNCHANGED account

DockerExec(o) ==
    /\ cli[o] = "docker"
    /\ cli' = [cli EXCEPT ![o] = "inside"]
    /\ UNCHANGED <<account, localOk, inner, rc, lost>>

InnerCheck(o) ==
    /\ cli[o] = "inside"
    /\ account["docker"] = NoAccount
    /\ cli' = [cli EXCEPT ![o] = "innerInsert"]
    /\ UNCHANGED <<account, localOk, inner, rc, lost>>

InnerInsert(o) ==
    /\ cli[o] = "innerInsert"
    /\ account["docker"] = NoAccount
    /\ account' = [account EXCEPT !["docker"] = o]
    /\ inner' = [inner EXCEPT ![o] = TRUE]
    /\ cli' = [cli EXCEPT ![o] = "inside"]
    /\ UNCHANGED <<localOk, rc, lost>>

(* The account is there, from this command or another, or the container     *)
(* has stopped.  The inner command ends in the traceback of its own docker  *)
(* probe, so the outer one counts a failure although the row may be in.     *)
InnerRaises(o) ==
    /\ cli[o] \in {"inside", "innerInsert"}
    /\ Exit(o, ExitCode(localOk[o], FALSE))
    /\ UNCHANGED account

(* DROP TABLE users. *)
DropAccounts ==
    /\ account' = [account EXCEPT !["local"] = NoAccount]
    /\ lost' = lost \cup ({account["local"]} \ {NoAccount})
    /\ UNCHANGED <<cli, localOk, inner, rc>>

AccountsStep(o, usersExist) ==
    \/ LocalFails(o)
    \/ LocalCheck(o, usersExist)
    \/ LocalInsert(o, usersExist)
    \/ LocalDuplicate(o)
    \/ NoDockerCommand(o)
    \/ DockerNotRunning(o)
    \/ DockerExec(o)
    \/ InnerCheck(o)
    \/ InnerInsert(o)
    \/ InnerRaises(o)

AccountsTypeOK ==
    /\ account \in [Databases -> Operators \cup {NoAccount}]
    /\ cli \in [Operators -> CliSteps]
    /\ localOk \in [Operators -> {"none", "True", "False", "None"}]
    /\ inner \in [Operators -> BOOLEAN]
    /\ rc \in [Operators -> {0, 1, 2, NoCode}]
    /\ lost \subseteq Operators

=============================================================================
