-------------------------- MODULE FirewallControl --------------------------
(***************************************************************************)
(* Firewall control of one device, Host, over the command queue.  An API   *)
(* handler of the server saves the administrator's setting and queues      *)
(* FIREWALL_UPDATE; the client fetches the setting when it starts, before  *)
(* it connects, and in its on_message callback for each such command, and  *)
(* rewrites its hosts file.  The listener reads on when the callback has   *)
(* returned.  All commands are FIREWALL_UPDATE.                            *)
(***************************************************************************)
EXTENDS CommandDelivery, HostsFile

CONSTANTS
    Host,
    Settings,       \* what an administrator may ask for: [enabled, domains]
    NoSetting,      \* no row in device_configs
    UserLine,       \* stands for the lines of the user
    MaxFaults       \* bound: restarts, breaks and failures of all kinds

VARIABLES
    setting,        \* the row of device_configs
    api,            \* where the handler of a request stands
    stage,          \* the client: "idle", "fetch", "rewrite" or "flush"
    enabled, domains, \* HostsManager
    calls,          \* calls of the hosts manager still to make
    hosts,          \* the hosts file
    lines,          \* what writeHostsFile is writing
    failures, restarts,
    untold,         \* history: the server died between a Save and its command
    torn            \* history: "torn" once the client died or failed in writing
                    \* the hosts file, "mended" once it was rewritten after that

serverSide == <<setting, api>>
managerVars == <<enabled, domains, calls>>
fileVars == <<hosts, lines>>
faultVars == <<failures, restarts, untold, torn>>
clientSide == <<stage, managerVars, fileVars>>
fwVars == <<serverSide, clientSide, faultVars>>
fcVars == <<vars, fwVars>>

ASSUME HostAssumption == Host \in Devices /\ NoSetting \notin Settings
ASSUME SettingsAssumption ==
    \A s \in Settings : /\ s.enabled \in BOOLEAN /\ (~s.enabled => s.domains = {})
                        /\ IsFiniteSet(s.domains)
ASSUME LinesAssumption ==
    /\ Start # End /\ {UserLine, Scrap} \intersect {Start, End} = {}
    /\ UserLine # Scrap
    /\ \A s \in Settings : s.domains \intersect {Start, End, UserLine, Scrap} = {}
ASSUME FaultsAssumption == MaxFaults \in Nat

Requests == Payloads

\* The client starts with no setting, or with one and a block left of some
\* earlier time.
FCInit ==
    /\ CDInit
    /\ setting \in {NoSetting} \union Settings
    /\ api = [u \in Requests |-> "read"]
    /\ stage = "fetch" /\ enabled = FALSE /\ domains = {} /\ calls = 0
    /\ \E s \in Settings : s.enabled /\ hosts = applyBlocks(<<UserLine>>, s.domains)
    /\ lines = <<>>
    /\ failures = 0 /\ restarts = 0 /\ untold = FALSE /\ torn = "no"

\* One budget bounds the faults of all kinds, except that the server may die
\* after a call of the database has failed: the device then reconnects.
Faults == drops + crashes + failures + restarts
CrashLeft == Faults < MaxFaults
FaultLeft == Faults + dbErrors < MaxFaults
DbErrorLeft == dbErrors' > dbErrors => Faults < MaxFaults

(***************************************************************************)
(* UpdateConfig: look for the row, save it, queue and send the command.    *)
(* An error of the look-up counts as no row; one of the saving is answered *)
(* with 500; one of the queueing is dropped.                               *)
(***************************************************************************)
Api(u, from, to) == api[u] = from /\ api' = [api EXCEPT ![u] = to]

GetByDeviceID(u) ==
    /\ \/ Api(u, "read", "insert")
       \/ setting # NoSetting /\ Api(u, "read", "update")
    /\ UNCHANGED <<vars, setting, clientSide, faultVars>>

(* The device id is unique: the second of two inserts fails, answer 500.   *)
Insert(u) ==
    /\ Api(u, "insert", IF setting = NoSetting THEN "saved" ELSE "done")
    /\ IF setting = NoSetting THEN setting' \in Settings ELSE UNCHANGED setting
    /\ UNCHANGED <<vars, clientSide, faultVars>>

Update(u) ==
    /\ Api(u, "update", "saved")
    /\ setting' \in Settings
    /\ UNCHANGED <<vars, clientSide, faultVars>>

UpsertFails(u) ==
    /\ Api(u, "insert", "done") \/ Api(u, "update", "done")
    /\ UNCHANGED <<vars, setting, clientSide, faultVars>>

Notify(u) ==
    /\ Api(u, "saved", "done")
    /\ CreateCommand(Host) \/ (CreateFails(Host) /\ DbErrorLeft)
    /\ UNCHANGED <<setting, clientSide, faultVars>>

UpdateConfig(u) ==
    GetByDeviceID(u) \/ Insert(u) \/ Update(u) \/ UpsertFails(u) \/ Notify(u)

(***************************************************************************)
(* The client.  The callback runs in the listener thread.                  *)
(***************************************************************************)
Listen ==
    /\ stage = "idle"
    /\ ClientStep(Host)
    /\ stage' = IF client[Host] = "listening" /\ inbox'[Host] # inbox[Host]
                   /\ Head(inbox[Host]) \in Payloads
                  THEN "fetch" ELSE "idle"
    /\ UNCHANGED <<commandVars, serverSide, managerVars, fileVars, faultVars>>

\* What SetDomains and SetEnabled have to do with an answer: SetDomains
\* writes the file if blocking was on already, SetEnabled always does; when
\* blocking goes off the manager keeps its list of domains.
Apply(on, list) ==
    /\ stage' = "rewrite"
    /\ domains' = IF on THEN list ELSE domains
    /\ enabled' = on
    /\ calls' = IF on /\ enabled THEN 2 ELSE 1

\* Slip: switching the manager on only when it was off.
FetchConfigOnce ==
    /\ stage = "fetch"
    /\ IF setting = NoSetting \/ enabled = setting.enabled
         THEN stage' = "idle" /\ UNCHANGED managerVars
         ELSE Apply(setting.enabled, setting.domains)
    /\ UNCHANGED <<vars, serverSide, fileVars, faultVars>>

(* GetConfig answers 500 when there is no row.                             *)
FetchConfig ==
    /\ stage = "fetch"
    /\ IF setting = NoSetting
         THEN stage' = "idle" /\ UNCHANGED managerVars
         ELSE Apply(setting.enabled, setting.domains)
    /\ UNCHANGED <<vars, serverSide, fileVars, faultVars>>

Fails == FaultLeft /\ failures' = failures + 1

FetchFails ==
    /\ stage = "fetch" /\ stage' = "idle"
    /\ Fails
    /\ UNCHANGED <<vars, serverSide, managerVars, fileVars, restarts, untold, torn>>

(* GetConfig drops the error of the query for the domains and answers with *)
(* blocking on and nothing to block.                                       *)
FetchUnlisted ==
    /\ stage = "fetch"
    /\ setting # NoSetting /\ setting.enabled
    /\ Apply(TRUE, {})
    /\ Fails
    /\ UNCHANGED <<vars, serverSide, fileVars, restarts, untold, torn>>

\* Slip: returning after the first of two calls.
CallDoneFirst == calls' = calls - 1 /\ stage' = "idle"

CallDone == calls' = calls - 1 /\ stage' = (IF calls = 1 THEN "idle" ELSE "rewrite")

(* The file is read and truncated, a copy being kept that nothing reads.   *)
Rewrite ==
    /\ stage = "rewrite" /\ stage' = "flush"
    /\ lines' = applyBlocks(hosts, IF enabled THEN domains ELSE {})
    /\ hosts' = <<>>
    /\ UNCHANGED <<vars, serverSide, managerVars, faultVars>>

(* It cannot be opened for writing.  Errors of the manager are ignored.    *)
RewriteFails ==
    /\ stage = "rewrite"
    /\ CallDone
    /\ Fails
    /\ UNCHANGED <<vars, serverSide, enabled, domains, fileVars, restarts, untold, torn>>

Flush ==
    /\ stage = "flush"
    /\ hosts' = lines /\ lines' = <<>>
    /\ CallDone
    /\ torn' = IF torn = "torn" THEN "mended" ELSE torn
    /\ UNCHANGED <<vars, serverSide, enabled, domains, failures, restarts, untold>>

(* A write or the flush fails, on a full disk say, and the client goes on  *)
(* with what was written so far in the file.                               *)
FlushFails ==
    /\ stage = "flush"
    /\ hosts' \in PartsOf(lines) /\ lines' = <<>>
    /\ CallDone
    /\ Fails
    /\ torn' = "torn"
    /\ UNCHANGED <<vars, serverSide, enabled, domains, restarts, untold>>

HostStep == FetchConfig \/ Rewrite \/ Flush

(***************************************************************************)
(* Failures.                                                               *)
(***************************************************************************)
ConnectionBreaks == FaultLeft /\ Drop(Host) /\ UNCHANGED <<commandVars, fwVars>>

(* A client that dies while it writes leaves what was written so far.      *)
HostRestarts ==
    /\ FaultLeft /\ restarts' = restarts + 1
    /\ IF client[Host] = "down" THEN UNCHANGED serverVars ELSE Drop(Host)
    /\ stage' = "fetch" /\ enabled' = FALSE /\ domains' = {} /\ calls' = 0
    /\ lines' = <<>>
    /\ IF stage = "flush" THEN hosts' \in PartsOf(lines) ELSE UNCHANGED hosts
    /\ torn' = IF stage = "flush" THEN "torn" ELSE torn
    /\ UNCHANGED <<commandVars, serverSide, failures, untold>>

ServerRestarts ==
    /\ CrashLeft /\ Crash
    /\ untold' = (untold \/ \E u \in Requests : api[u] = "saved")
    /\ api' = [u \in Requests |-> IF api[u] = "read" THEN "read" ELSE "done"]
    /\ UNCHANGED <<setting, clientSide, failures, restarts, torn>>

(***************************************************************************)
Drain(fd) == QueueStep(fd) /\ DbErrorLeft /\ UNCHANGED fwVars

Sender(c) == SenderStep(c) /\ DbErrorLeft /\ UNCHANGED fwVars

FCNext ==
    \/ \E fd \in Fds : HandlerStep(fd) /\ UNCHANGED <<commandVars, fwVars>>
    \/ \E fd \in Fds : Drain(fd)
    \/ \E c \in Payloads : Sender(c)
    \/ \E u \in Requests : UpdateConfig(u)
    \/ Listen \/ HostStep
    \/ FetchFails \/ FetchUnlisted \/ RewriteFails \/ FlushFails
    \/ ConnectionBreaks \/ HostRestarts \/ ServerRestarts

FCSpec == FCInit /\ [][FCNext]_fcVars

(* Threads run; a request that was begun is not obliged to end well, and   *)
(* nobody is obliged to make one.                                          *)
FCFairSpec ==
    /\ FCSpec
    /\ \A fd \in Fds : WF_fcVars(HandlerStep(fd) /\ UNCHANGED <<commandVars, fwVars>>)
    /\ \A fd \in Fds : WF_fcVars(Drain(fd))
    /\ \A c \in Payloads : WF_fcVars(Sender(c))
    /\ \A u \in Requests : WF_fcVars(api[u] # "read" /\ UpdateConfig(u))
    /\ WF_fcVars(Listen) /\ WF_fcVars(HostStep)

(***************************************************************************)
(* Properties.                                                             *)
(***************************************************************************)
Lines == {UserLine, Scrap, Start, End} \union UNION {s.domains : s \in Settings}

Lists == {{}} \union {s.domains : s \in Settings}

OnceEach(file) ==
    \A i, j \in DOMAIN file : file[i] = file[j] /\ file[i] # Scrap => i = j

(* Types; the client has a call of the hosts manager to make exactly when  *)
(* it is in one, and no rewrite puts a whole line into the file twice.     *)
FirewallTypeOK ==
    /\ setting \in {NoSetting} \union Settings
    /\ api \in [Requests -> {"read", "insert", "update", "saved", "done"}]
    /\ stage \in {"idle", "fetch", "rewrite", "flush"}
    /\ enabled \in BOOLEAN /\ domains \subseteq Lines
    /\ calls \in 0..2 /\ (stage \in {"rewrite", "flush"} <=> calls > 0)
    /\ \A file \in {hosts, lines} : file \in Seq(Lines) /\ OnceEach(file)
    /\ failures \in Nat /\ restarts \in Nat /\ failures + restarts <= MaxFaults
    /\ untold \in BOOLEAN /\ torn \in {"no", "torn", "mended"}

(* Between two rewrites the hosts file is the user's lines with at most    *)
(* one block behind them.  When a client dies or fails in the middle of a  *)
(* write, lines of the user may be gone for good, and the beginning of a   *)
(* line may stay for good among them, as that of the first marker, which   *)
(* is none then; but the next rewrite that ends takes away every line of   *)
(* the block, wherever the block was cut.                                  *)
HostsFileInOrder ==
    stage = "idle" /\ torn # "torn" =>
        \E list \in Lists : \E n \in 0..Len(hosts) :
            /\ hosts = SubSeq(hosts, 1, n) \o Block(list)
            /\ \A i \in 1..n : hosts[i] \in {UserLine, Scrap}
            /\ torn = "no" => SubSeq(hosts, 1, n) = <<UserLine>>

(* Unless a command was lost or swallowed, a rewrite or a fetch failed,    *)
(* the server died between saving a setting and queueing its command, or a *)
(* call of the database failed for a command that is not SENT, the device  *)
(* comes to block what was saved last, whichever updates overlap with each *)
(* other, with the client's start and with a crash.                        *)
Disturbed ==
    \/ drops > 0 \/ failures > 0 \/ untold
    \/ swallowed[Host] \intersect Payloads # {}
    \/ \E c \in missed : rows[c].status # "SENT"

ConfigEnforced ==
    <>[](~Disturbed /\ setting # NoSetting => Blocked(hosts) = setting.domains)
=============================================================================
