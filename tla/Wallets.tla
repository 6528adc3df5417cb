------------------------------ MODULE Wallets ------------------------------
(***************************************************************************)
(* The wallets of one node: the keystore directory, the wallet manager of  *)
(* the process, and the key that the miner signs with.  One console types  *)
(* commands one after another; timers lock wallets meanwhile.  A key is    *)
(* an account, an encrypted key a file with its password.                  *)
(*                                                                         *)
(* At every start main makes a wallet of a new key that nothing saves:     *)
(* Start.  What the manager's mu guards is one step; SaveWallets holds it  *)
(* over several files.                                                     *)
(***************************************************************************)
EXTENDS Integers, Sequences, FiniteSets

CONSTANTS
  Accounts,         \* accounts of the user
  Start,            \* the address made at the start
  Passwords, First, \* and the one of new accounts
  Plans,            \* what a behaviour may have: commands that "save" or
                    \* "mine", "timers" that fire, and "ends" of the process
  MaxFiles,         \* bound, of one account
  MaxCrashes        \* bound

VARIABLES
  plan,
  files,            \* of each account, oldest first: password, and whether
                    \* the file is whole
  wallets,          \* WalletManager.wallets
  timer, firing,    \* auto-lock timers: those that run, and those whose
                    \* function waits for mu
  cmd,              \* the command at work
  minerAddress,     \* of the console's node
  miner,            \* the mining instance: its address and its key
  told,             \* the password of which the user was last told success
  unfinished,       \* accounts that an unfinished write or save has touched
  warned,           \* addresses set with a warning that they have no file
  crashes

managerVars == <<wallets, timer, firing>>
minerVars == <<minerAddress, miner, warned>>
diskVars == <<files, told, unfinished>>
vars == <<plan, managerVars, cmd, minerVars, diskVars, crashes>>

Addresses == Accounts \cup {Start}
None == "none"

\* A wallet is "absent", "open", or locked: without its key, or with it.
NewWalletWithAddress == "placeholder"
NewWallet == "sealed"

Idle == [op |-> "idle", acc |-> None, pwd |-> None, todo |-> {}, done |-> {}]

\* SaveWallets has mu for reading.
MuFree == cmd.op \notin {"save", "saving"}

\* The manager of a new process.
FreshWallets == [a \in Addresses |-> IF a = Start THEN NewWallet ELSE "absent"]

\* With or without --startmining.
FreshMiners == [addr : IF "mine" \in plan THEN {None, Start} ELSE {None}, key : {None}]

Init ==
  /\ plan \in Plans
  /\ wallets = FreshWallets
  /\ timer = {} /\ firing = {}
  /\ cmd = Idle
  /\ files = [a \in Accounts |-> <<>>]
  /\ minerAddress = None
  /\ miner \in FreshMiners
  /\ told = [a \in Accounts |-> None]
  /\ unfinished = {} /\ warned = {}
  /\ crashes = 0

-----------------------------------------------------------------------------
\* The keystore

\* Mutant: one file of an account, which is written over.
OneFile(fs, f) == <<f>>

\* A new file has the time in its name, so nothing is written over.
WithFile(fs, f) == Append(fs, f)

\* As WriteFile begins and as it ends.
Encrypted(p) == [pwd |-> p, whole |-> FALSE]
Whole(p) == [pwd |-> p, whole |-> TRUE]
LastWhole(fs) == [fs EXCEPT ![Len(fs)] = Whole(@.pwd)]

HasFile(a) == a \in Accounts /\ files[a] # <<>>

\* Mutant: the first file that is found.
Oldest(fs) == fs[1]

\* findKeystoreFile
Newest(fs) == fs[Len(fs)]

Decrypts(f, p) == f = Whole(p)

\* The newest file decides, which may be torn.
KeyOpens(a, p) == HasFile(a) /\ Decrypts(Newest(files[a]), p)

\* A whole file has the account's key.
Kept(a) == a \in Accounts /\ \E i \in DOMAIN files[a] : files[a][i].whole

WriteFile(a, p) ==
  /\ Len(files[a]) < MaxFiles
  /\ files' = [files EXCEPT ![a] = WithFile(@, Encrypted(p))]

-----------------------------------------------------------------------------
\* Creating and importing: a file, and then a placeholder in the manager

SaveAccount(a) ==
  /\ cmd.op = "idle"
  /\ WriteFile(a, First)
  /\ cmd' = [Idle EXCEPT !.op = "create", !.acc = a, !.pwd = First]
  /\ UNCHANGED <<plan, managerVars, minerVars, told, unfinished, crashes>>

\* createaddress
CreateAddress(a) == files[a] = <<>> /\ SaveAccount(a)

\* import: a key from elsewhere, or one exported before.
Import(a) == SaveAccount(a)

\* Mutant: the wallet is registered unlocked.
AddedOpen(a) == [wallets EXCEPT ![a] = "open"]

AddWallet(a) == [wallets EXCEPT ![a] = NewWalletWithAddress]

\* The file is complete, and the wallet is registered.
CreateEnds ==
  /\ cmd.op = "create"
  /\ files' = [files EXCEPT ![cmd.acc] = LastWhole(@)]
  /\ wallets' = AddWallet(cmd.acc)
  /\ told' = [told EXCEPT ![cmd.acc] = cmd.pwd]
  /\ unfinished' = unfinished \ {cmd.acc}
  /\ cmd' = Idle
  /\ UNCHANGED <<plan, timer, firing, minerVars, crashes>>

-----------------------------------------------------------------------------
\* Unlocking

\* Wallet.Unlock
Opened(a) == [wallets EXCEPT ![a] = "open"]

\* WalletManager.Unlock, where it succeeds: a timer that runs is stopped, one
\* that has fired is not.  Without success it changes the count of failed
\* attempts only, which bars the wallet for a time: not modelled.
Unlock(a, p) ==
  /\ cmd.op = "idle"
  /\ wallets[a] # "absent"
  /\ KeyOpens(a, p)
  /\ wallets' = Opened(a)
  /\ timer' = timer \cup {a}
  /\ cmd' = [Idle EXCEPT !.op = "unlock", !.acc = a]
  /\ UNCHANGED <<plan, firing, minerVars, diskVars, crashes>>

SetPrivateKey(m, a) == [m EXCEPT !.key = a]

\* The rest of handleUnlock: the wallet may be locked again by now.
UnlockEnds ==
  /\ cmd.op = "unlock"
  /\ minerAddress' = cmd.acc
  /\ miner' = IF wallets[cmd.acc] = "open" THEN SetPrivateKey(miner, cmd.acc) ELSE miner
  /\ cmd' = Idle
  /\ UNCHANGED <<plan, managerVars, warned, diskVars, crashes>>

-----------------------------------------------------------------------------
\* Locking

\* Wallet.Lock forgets the key.  It clears the wallet's own security state, not
\* the manager's, whose timer runs on.
Locked(a) == [wallets EXCEPT ![a] = "placeholder"]

\* The lock command.
Lock(a) ==
  /\ cmd.op = "idle"
  /\ wallets[a] # "absent"
  /\ wallets' = Locked(a)
  /\ UNCHANGED <<plan, timer, firing, cmd, minerVars, diskVars, crashes>>

TimerFires(a) ==
  /\ "timers" \in plan /\ a \in timer
  /\ timer' = timer \ {a} /\ firing' = firing \cup {a}
  /\ UNCHANGED <<plan, wallets, cmd, minerVars, diskVars, crashes>>

\* Its function, which another use of mu has delayed perhaps.
AutoLock(a) ==
  /\ a \in firing /\ MuFree
  /\ firing' = firing \ {a}
  /\ wallets' = IF wallets[a] = "absent" THEN wallets ELSE Locked(a)
  /\ UNCHANGED <<plan, timer, cmd, minerVars, diskVars, crashes>>

-----------------------------------------------------------------------------
\* Saving and loading

Save(p) ==
  /\ "save" \in plan /\ cmd.op = "idle"
  /\ cmd' = [op |-> "save", acc |-> None, pwd |-> p,
             todo |-> {a \in Addresses : wallets[a] # "absent"}, done |-> {}]
  /\ UNCHANGED <<plan, managerVars, minerVars, diskVars, crashes>>

\* savewallets
SaveWallets(p) == Save(p)

\* changepassword asks for the old password, and checks that some file exists.
ChangePassword(p) == (\E a \in Accounts : HasFile(a)) /\ Save(p)

\* One wallet after another, in no order.
SaveNext(a) ==
  /\ cmd.op = "save" /\ a \in cmd.todo
  /\ wallets[a] = "open"
  /\ WriteFile(a, cmd.pwd)
  /\ cmd' = [cmd EXCEPT !.op = "saving", !.acc = a]
  /\ UNCHANGED <<plan, managerVars, minerVars, told, unfinished, crashes>>

SaveWritten ==
  /\ cmd.op = "saving"
  /\ files' = [files EXCEPT ![cmd.acc] = LastWhole(@)]
  /\ cmd' = [cmd EXCEPT !.op = "save", !.todo = @ \ {cmd.acc}, !.done = @ \cup {cmd.acc}]
  /\ UNCHANGED <<plan, managerVars, minerVars, told, unfinished, crashes>>

\* The first locked wallet ends it.
SaveFails(a) ==
  /\ cmd.op = "save" /\ a \in cmd.todo
  /\ wallets[a] # "open"
  /\ unfinished' = unfinished \cup cmd.done
  /\ cmd' = Idle
  /\ UNCHANGED <<plan, managerVars, minerVars, files, told, crashes>>

\* The user is told that the wallets have this password now.
SaveEnds ==
  /\ cmd.op = "save" /\ cmd.todo = {}
  /\ told' = [a \in Accounts |-> IF a \in cmd.done THEN cmd.pwd ELSE told[a]]
  /\ unfinished' = unfinished \ cmd.done
  /\ cmd' = Idle
  /\ UNCHANGED <<plan, managerVars, minerVars, files, crashes>>

\* The manager starts again from the names of the files; timers stay.
Reloaded ==
  [a \in Addresses |-> IF HasFile(a) THEN NewWalletWithAddress ELSE "absent"]

LoadWallets ==
  /\ cmd.op = "idle"
  /\ wallets' = Reloaded
  /\ UNCHANGED <<plan, timer, firing, cmd, minerVars, diskVars, crashes>>

-----------------------------------------------------------------------------
\* Mining

\* setaddress
SetAddress(a) ==
  /\ "mine" \in plan /\ cmd.op = "idle"
  /\ minerAddress' = a
  /\ warned' = IF HasFile(a) THEN warned ELSE warned \cup {a}
  /\ UNCHANGED <<plan, managerVars, cmd, miner, diskVars, crashes>>

SetMinerAddress(m, a) == [m EXCEPT !.addr = a]

\* startmining: the instance gets the address, whatever key it has.
StartMining ==
  /\ "mine" \in plan /\ cmd.op = "idle"
  /\ minerAddress # None
  /\ miner' = SetMinerAddress(miner, minerAddress)
  /\ UNCHANGED <<plan, managerVars, cmd, minerAddress, warned, diskVars, crashes>>

\* A block is not submitted without a signature.
Signs == miner.key # None

\* The blocks of this node pay the address, whoever's key has signed.
Pays == IF Signs THEN {miner.addr} \ {None} ELSE {}

-----------------------------------------------------------------------------
\* The process ends anywhere, and memory with it; the next start.
Restart ==
  /\ "ends" \in plan
  /\ crashes < MaxCrashes /\ crashes' = crashes + 1
  /\ unfinished' = unfinished \cup cmd.done \cup
       (IF cmd.op \in {"create", "saving"} THEN {cmd.acc} ELSE {})
  /\ wallets' = FreshWallets
  /\ timer' = {} /\ firing' = {}
  /\ cmd' = Idle
  /\ minerAddress' = None
  /\ miner' \in FreshMiners
  /\ UNCHANGED <<plan, files, told, warned>>

CommandStep ==
  \/ \E a \in Accounts : CreateAddress(a) \/ Import(a)
  \/ \E a \in Addresses, p \in Passwords : Unlock(a, p)
  \/ CreateEnds \/ UnlockEnds
  \/ \E a \in Accounts : SetAddress(a)
  \/ \E a \in Addresses : Lock(a) \/ SaveNext(a) \/ SaveFails(a)
  \/ \E p \in Passwords : SaveWallets(p) \/ ChangePassword(p)
  \/ SaveWritten \/ SaveEnds \/ LoadWallets \/ StartMining

Next ==
  \/ CommandStep
  \/ \E a \in Addresses : TimerFires(a) \/ AutoLock(a)
  \/ Restart

Spec == Init /\ [][Next]_vars

-----------------------------------------------------------------------------
\* The invariant behind the properties

EncryptedKeys == [pwd : Passwords, whole : BOOLEAN]

Commands ==
  [op : {"idle", "create", "unlock", "save", "saving"},
   acc : Addresses \cup {None}, pwd : Passwords \cup {None},
   todo : SUBSET Addresses, done : SUBSET Accounts]

TypeOK ==
  /\ files \in [Accounts -> Seq(EncryptedKeys)]
  /\ wallets \in [Addresses -> {"absent", "open", "placeholder", "sealed"}]
  /\ timer \subseteq Addresses /\ firing \subseteq Addresses
  /\ cmd \in Commands
  /\ minerAddress \in Addresses \cup {None}
  /\ miner \in [addr : Addresses \cup {None}, key : Addresses \cup {None}]
  /\ told \in [Accounts -> Passwords \cup {None}]
  /\ unfinished \subseteq Accounts /\ warned \subseteq Accounts

\* A command writes the newest file of this account, which is still torn.
Writes(a) == cmd.op \in {"create", "saving"} /\ a = cmd.acc

\* The command at work has the files that its next step relies on.
CommandInOrder ==
  /\ cmd.op = "idle" => cmd = Idle
  /\ cmd.op \in {"create", "saving"} =>
       /\ HasFile(cmd.acc) /\ Newest(files[cmd.acc]) = Encrypted(cmd.pwd)
  /\ cmd.op \in {"create", "save", "saving"} => cmd.pwd \in Passwords
  /\ cmd.op \in {"create", "unlock"} => cmd.todo = {} /\ cmd.done = {}
  /\ cmd.op = "unlock" => Kept(cmd.acc)
  /\ cmd.op = "saving" => cmd.acc \in cmd.todo
  /\ \A a \in cmd.done : a \notin cmd.todo /\ KeyOpens(a, cmd.pwd)

\* Where OpensAsTold has no exception but writes under way.
OpensUnlessTouched ==
  \A a \in Accounts :
    \/ told[a] = None \/ a \in unfinished \cup cmd.done \/ Writes(a)
    \/ KeyOpens(a, told[a])

\* An account whose files are all torn was being written when a process ended.
TornIsUnfinished ==
  \A a \in Accounts : HasFile(a) => Kept(a) \/ a \in unfinished \/ Writes(a)

\* Only accounts with a file are ever open, the wallet made at the start never.
OpenHasFile == \A a \in Addresses : wallets[a] = "open" => a \in Accounts

Spendable(a) == Kept(a) \/ a \in warned \cup unfinished \cup {Start}

\* The addresses that the console's node and the miner have.
AddressesSpendable == \A a \in {minerAddress, miner.addr} \ {None} : Spendable(a)

-----------------------------------------------------------------------------
\* Properties

\* An account of which the user was told has its key in a whole file for ever,
\* whatever is saved later and wherever the process ends; every save writes a
\* file of its own.
KeyNeverLost == \A a \in Accounts : told[a] # None => Kept(a)

\* And it opens with the password that the user was told of, except for the
\* accounts that a save or a write has touched without coming to its end.
OpensAsTold ==
  \A a \in Accounts :
    \/ told[a] = None \/ a \in unfinished
    \/ a \in cmd.done \cup {cmd.acc}
    \/ KeyOpens(a, told[a])

\* Every wallet that is open will be locked: its timer runs, or has fired.
OpenIsTimed ==
  \A a \in Addresses : wallets[a] = "open" => a \in timer \cup firing

\* What the node's blocks pay can be spent, but for addresses that the user was
\* warned of, and for the wallet made at the start, which --startmining uses.
RewardsKept ==
  \A a \in Pays : Kept(a) \/ a \in warned \cup unfinished \cup {Start}

WalletsKept == KeyNeverLost /\ OpensAsTold /\ OpenIsTimed /\ RewardsKept

=============================================================================
