# Nexus Dashboard: TLA+ models and proofs

Nexus Dashboard is a Flask application (`nexusdash/`) that administers one Linux
host: its network, accounts, updates, storage, containers and model server. It
keeps its own state in JSON files beside the application, runs root work through
small helpers and systemd, and is served by a threaded server. Timer units start
the same program again as separate "tick" processes, which share the files and
none of the locks. Almost every hard question about it is one of these:

- request threads that load, change and save one file;
- a second process (tick, command line, detached worker) on that same file;
- state kept in memory (timers, flags, secrets) that a restart forgets;
- a sequence of external steps of which one fails.

This directory models the parts where those questions matter, checks them with
TLC and proves what can be proved for every size with TLAPS.

## Inventory

| Component | State it keeps | Operations | Hard behaviour | What makes it correct | Module |
|---|---|---|---|---|---|
| Network change `modules/network.py` | `network_config.json`, netplan file, `_net_pending`, timers, `_net_handoffs` | apply (interface, bridge), finalize, confirm, revert, timeout, handoff | timers racing requests, slow work outside the lock, failing helper, restart | every pending change has its timer; at rest the host is on the last working configuration | NetworkChange, NetSpec |
| Accounts and tokens `core/auth.py`, `cli.py` | `auth.json` | create, role, password, delete, tokens, stamp, set-password | threads; a process without the lock; restore | changes are atomic; an administrator remains | AuthStore, AuthRules, AuthSpec |
| Atomic JSON files `core/config.py` | any JSON file and its temporary | `write_json_atomic` | kill, power loss, full disk, shared temporary name | a reader finds one whole document; a save takes effect once or not at all | AtomicJson, JsonSpec |
| Updates `modules/updates.py` | `_state`, `_apply`, two locks | check, apply | two flags under two locks | flags come down; one apply | UpdatesJob |
| Model download `modules/llama.py` | `model_job.json` | pull, resume, cancel, detached worker | worker and server share a file, kills, restarts | one worker; honest status; cancel works | ModelJob |
| Model backup `modules/llama.py` | backup job file, share, manifests | start, restore, cancel, delete, worker, rsync | as above; partial copies | one copy at a time; a manifest means a whole copy | Backup |
| DNS and DHCP `modules/dnsmasq.py` | stores, rendered files | edit, test, roll back, reload or restart | signal after the lock; failing restart | stores, files and service agree | Dnsmasq |
| Power `modules/nut.py`, `upsmon.py` | none (files of other programs) | sections, scalars, raw text, helper | stale read of whole files, put-back | essential lines stay; disk is what runs; a refused edit leaves no trace | Power, EditSpec |
| Reverse proxy `modules/caddy.py`, `core/tls.py` | Caddyfile, certificates | sites, raw file, certificates, helper | validate, replace, reload, put back; two-file pairs | file and service agree; pairs match; a refused edit leaves no trace | Proxy, EditSpec |
| File shares `modules/smb.py`, `nfs.py`, `minidlna.py` | their configuration files, Samba registry | add, edit, delete, apply | unlocked read-write-reload | the last write is served | FileShares |
| iSCSI `modules/iscsi.py` | kernel configuration, saved file | targets, LUNs, ACLs, CHAP | edit and save interleave; restart | a restart loses nothing | Iscsi |
| Firewall `modules/firewall.py` | none (ufw's) | rules, enable, policies | delete then add, renumbering | the dashboard port stays open | Firewall |
| Disks, ZFS, LVM, md `modules/disks.py`, `zfs.py`, `lvm.py`, `mdraid.py` | none (the system's) | wipe, format, mount, pools, groups, arrays | four pages with separate checks of one disk | no disk in use is cleared | Storage |
| Drive light `modules/disks.py` | `_locate_jobs`, LED | locate, stop, worker thread | start and stop overlap, restart | the light ends off | Locate |
| Snapshots, replication `modules/schedules.py`, `replication.py` | schedules, jobs, snapshots | edit, run, ticks, transfer | hours between load and save, remote failures | retention; replicas never lose history | Replication |
| SMART history, alerts `modules/disks.py`, `core/alerts.py` | `smart_state.json`, `notifications.json` | sample, tick, deliver, save settings | two processes on one file, failed delivery | who is told matches what is on record | Health |
| Docker `modules/docker.py` | none (the daemon's) | create, act, pull, recreate | a failing step in recreate | the old or the new container runs; data stays | Docker |
| Compose `modules/docker_compose.py` | stack files | create, edit, delete, act | daemon that does not answer | containers keep their file | Compose |
| Containers and VMs `modules/containers/` | none (LXD's) | create, copy, rename, forwards | stale PUT, copied addresses | addresses differ | Instances |
| Node configuration `core/nodeconfig.py` | all of the files above | export, restore | no locks, file by file | (its effect on `auth.json`) | AuthStore |
| Single sign-on, registry, maintenance, model settings, registries and consoles, metrics, logs, services, front end | | | | | not modelled, see below |

Components call each other little: every route passes `require_login` of
`core/auth.py` and its module gate, every file goes through `write_json_atomic`,
the network handoff opens a session as a login does, and a configuration restore
replaces the files of all the others. That is why most components are modules of
their own, and the runs may check them side by side.

## Modules

`MC*` modules only give TLC its small instances. In the modules themselves an
operator whose comment begins with "Mutant of" is a faulty variant that nothing
uses: it is there to show that a property notices the fault.

In most modules `th` (or `req`, `pr`) holds what each request thread is doing:
`pc` names the next step of its handler, the other fields what it has read. A
step ends where the handler calls a command, a daemon or another file, since that
is where another thread can come in. "History" variables record what happened for
a property and are read by no action.

### Accounts, files, network

**NetworkChange** models the commit-confirmed change. `netconf`, `managed` and
`live` are the dashboard's file, the netplan file and what netplan applied.
`_net_lock` is the variable `lock`: a handler that holds it across the root helper
is two actions (`ApplyHelper`/`ApplyCommit`, `FinalizeHelper`/`FinalizeCommit`,
`RevertHelper` or `TimeoutRevert`/`RollbackCommit`), so that `Crash` can fall
between the helper and the save. A request is `Read` (the route, before the
lock), `ApplyHelper`, `ApplyCommit`, `Mint` (address resolution and the handoff
secret, outside the lock) and `Publish`. `Helper` is the root helper of
`install.sh`: `generate` may refuse and put the old file back, `apply` may fail
and leave the new one. A timer is a token, `<<change, phase>>`, first in `armed`,
then in `fired` while its callback waits for the lock. Tokens are random in the
code and are the number of the change here. `SaveRaises` is `write_json_atomic`
raising in any of the locked sections: the lock is released, the helper's work stays
done, the record does not change. `working`, `superseded`, `opened` and `unsaved` are
history variables; `unsaved` holds the tokens whose timer ran out into such a save.

**NetSpec** is what an admin is promised of it: a change is tried, made final and
confirmed, or returns to the configuration that was on file when it was tried, and each
of these happens at once to the host and to the file. With a helper that may fail or a
server that may stop it promises no more of the host, and still everything of the file.
`NetworkChange` implements it (`Promise`) with `saved <- netconf`, `stage <- pending.phase`,
`back <- pending.prev`, and as what runs the host itself while the lock is free, and the
file between helper and save: a step counts from its save.

**AuthRules** holds what one request may do to `auth.json`, **AuthStore** the
threads, the lock, `set-password` and restore around it, and **AuthSpec** the
abstract store in which every accepted change takes effect at once on the latest
contents. `AuthStore` implements it through `store <- file` as long as the server
is the only writer. Identity and role are read in `Authenticate`, without the
lock, exactly as `require_login` does, and not again. A restore comes in two kinds: as a
process of its own (`Restore`), which replaces the file at once, and in the server
(`RestoreBegin`, `RestoreEnd`), where it opens the very temporary file a save of that
process uses, without the lock. What a save then renames is `Written`: its own text, the
restored one, a mixture no reader can parse, or nothing at all. No restore asks whether
the bundle has an administrator.

**AtomicJson** opens up the step that `AuthStore` takes for granted:
`write_json_atomic` one system call at a time over inodes, with the temporary name
shared by the threads of a process. `Serialised` says whether callers hold a lock,
as those of `auth.json` do. **JsonSpec** is what a caller is promised: a save takes
effect once, whole, between call and return; one that raises has changed nothing; a
power loss brings back at worst the document that was on disk. `AtomicJson` implements
it through `found <- data[target]`, `kept <- data[durable]` and the stage of each call
(`Promise`) when callers take turns. Together with `AuthSpec` this is the argument from
system calls to atomic requests.

### Jobs

**UpdatesJob** is the pair of flags of `updates.py`. The package database is an
epoch and whether anything is pending; a check reads it and records the reading
later.

**ModelJob** is the download job: requests under `_model_job_lock` and workers
outside it, each loading and saving the job file in two steps.

**Backup** is the other job of `llama.py`: `Check`/`Start`/`Spawn`/`SaveAndLeave` are
`llama_backup_create`, `llama_backup_restore` and `_start_backup_job`, which keeps its
check and its save under one lock; `Cancel`, `Signal` and `DeleteTree` the other
routes; the `W` actions are `cli_llama_backup` step by step, and `Rsync` the process
below it, which may outlive its worker. A copy is none, part or whole, and so is a model,
since the download worker may be at work on it (`Download`). Signalling pid 0 stops the service (`os.kill(0)` reaches its own group).

**Locate** is `disk_locate` and `_locate_worker` for one disk: `Pop`, `SetEvent`,
`TurnOff` and the registration are separate because only the table is locked.

### Services the dashboard configures

**Dnsmasq**: `settings` and `colls` are the JSON stores, `files` the render directory,
`loaded` what the daemon read. A request mutates, renders, tests and writes under
`STORE_LOCK` and signals the service after releasing it; `Diff` decides between
nothing, reload and restart. Records are counted by key.

**Power** and **Proxy** share a shape: read, merge into the whole text, hand the text
to a root helper that replaces the file, restarts or reloads and puts the old text
back. In Power a file is a function from entries to values (sections, one setting,
everything else) and a helper runs over the units of `Plan`; in Proxy a certificate
and its key are the two halves of `pairs`, replaced one after the other. Putting back is
not a replacement: the helper empties the file and then writes it (`Restore`/`Refill`,
`PutBack`/`Refill`, `PutBackKey`/`RefillKey`), where another page can read it empty and
where it can fail. `Service` is the services page, which stops, starts and restarts these
units at any moment, beside a helper too.

**EditSpec** is what such a page promises: a document is replaced at once, together with
what every service that runs has read, and only by a text those services accept; a service
may be stopped, and started again on the disk as it is. A refused edit is no step at all.
Power and Proxy implement it (`Promise`, at the end of each) by showing the disk and the
services as they were before the helper at work, until it ends. In Power that is
`Before(Working)` and the units that ran; in Proxy a document is what its helper would put
back, and the dashboard's own pair, written half by half, is the older half until both are
there. Nothing is promised from the moment that two of these sequences overlap, the
services page acts beside one, or one is left half done (a put-back that fails, the key
half of a pair that cannot be replaced): `tangled <- disturbed`. Overlapping merges are
known to lose edits, and a unit started beside a helper can run what is then taken back.

**FileShares** is Samba, NFS and DLNA: read, change, (for Samba) test in the scratch
file all requests share, truncate and write, reload. Each of the last three may fail, and
then the request ends with the file as it is: these pages put nothing back.

**Iscsi**: `Outcome` is what targetcli makes of one command, `th[t].todo` the commands
a route still has to issue, and every one is followed by `saveconfig`.

**Firewall** keeps only the rules that name the dashboard's port, numbered IPv4
first as `ufw status numbered` lists them, those of udp among them. What the guard takes
for an allow (`GuardSeesAllow`, the regular expression of `_dashboard_port_has_allow`) and
what lets the page be reached (`Covers`, `OpenIn`) are two things. An edit is a delete by
number and an add, with the put-back when the add fails.

### The host

**Storage** puts the four storage pages over the same disks: `holds` is the signature
lsblk shows, `Admitted` the check of each route, and the commands are refused where the
kernel or the tool refuses them (`Busy`). `on` is where the extents of the volume are.
`conf` is how `mdadm.conf` spells the array: lsblk shows its kernel name, while the line
that the dashboard writes has the name it was created under. A wipe may be admitted with a
`zpool status` that failed (`Blindly`).
A host begins with blank disks, a pool, a volume group or an auto-assembled array.

**Replication** is one dataset: `snaps` are its snapshots, numbered as they were taken and
marked when the schedule took them, `sched` and `job` the two files, `remote` the numbers
the other host has. `Procs` are the requests and the ticks; `pr` what each has loaded.
`Surplus` is what a pruning destroys, `Base` and `Latest` the ends of an increment, `Kept`
and `Sent` what a transfer leaves and brings; one that breaks brings the oldest part. A
pruning whose list failed destroys nothing (`ListAutosnaps`).
`Answer` classifies the listing of the other host as `_remote_snaps` does.

**Health** follows a defect counter from the reading to the message: `smart` is
`smart_state.json`, `file` is `notifications.json`, `tick` the alerts tick and `page`
the settings request; `told` is what the administrator heard.

**Docker** replaces one service's container: each call to the daemon of
`_dk_recreate_clone` is an action that may fail (`Fault`), or be given up on while the
daemon carries it out (`GivenUp`, `ReplaceGivenUp`); `ComposeUp` is the path through
`docker compose`, which looks at nothing afterwards. **Compose** is one managed
stack, a file and its containers; a deletion may ask a daemon that does not answer, which
`unheard` records. **Instances** is LXD: a request is a list of calls,
and a PUT writes the object as it was read.

### Composition

`MCServices`, `MCPlatform` and `MCJobs` instantiate several components in one module:
`which` names the component of a behaviour and `s1, s2, ...` are its variables. The
components share no state, so this is the union of their behaviours and not their
product, and a property is `which = "X" => X!Property`. `MCPlatform` and `MCServices`
declare symmetry over request threads, which no action, initial state or property
tells apart, and over the model groups of Backup, which are equally interchangeable;
neither has a liveness property. `MCJobs` has liveness properties and no
symmetry, and restates the fairness of its two components over the shared variables.
The type invariants of the modules the three instantiate are written out and hold
over these bounds, but are not listed as properties of the runs.

## Runs

| Run | Question |
|---|---|
| network_safety | rollback, connection and links when everything works; does a change step atomically |
| network_faults | does a pending change keep its timer and end when helpers fail, saves raise or the service restarts |
| auth_web | is the server atomic, does an administrator remain |
| services | does what runs follow what is on disk; are edits atomic; do essentials and access stay |
| jobs | do flags come down, is an apply alone, one download worker, honest status, effective cancel |
| platform | disks, snapshots, containers, lights, alerts, backups, files, and `auth.json` with its writers outside the server |
| network_stacked | finding: a change over a finalizing one |
| docker_autoremove | finding: recreate of a container that the daemon removes when it stops |
| compose_delete | finding: a stack deleted while the daemon does not answer |
| smart_gap | finding: a reading without the counter |
| json_unlocked | finding: two threads without a lock |
| model_pulls | finding: two pulls, two workers |

Bounds, and why they are enough:

| Component | Bound | What it makes happen |
|---|---|---|
| NetworkChange | two admins, two changes; an interface and a bridge, static and DHCP (safety), one interface, and one restart or one save that raises beside any number of helper failures (faults) | one change stacked on, racing or outliving another |
| AuthStore | two threads, two accounts, one token, two days (web); two threads, set-password for `bob`, bundles with and without an administrator (platform) | every interleaving of two critical sections; demoting the last administrator |
| UpdatesJob | two requests, two checks, one apply, failing checks | a check and an apply around each other |
| ModelJob | one request at a time, three workers, one kill, one restart | a pull, a resume after a kill, a resume after a cancel |
| Dnsmasq | two threads, three requests, one crash, failing restarts | two writes before one signal, and a repair |
| Power | two threads, two requests, of pages or of the services page | two stale merges of one file; a unit started beside a helper |
| Proxy | two threads, three requests, those of the services page among them, two new pairs | two uploads of one pair, a route between them |
| FileShares | two threads, two requests | two writes of one file with both reloads after; a failed write and a good one |
| Iscsi | two threads, three requests or restarts, one target, store, initiator | an edit between another edit and its save |
| Firewall | one thread, four rules, four requests | enable, deny, then lose the allow in two steps; an edit whose add fails; overlapping requests are out of its properties |
| Storage | two threads, two disks, three requests | what one page makes, a second takes, a third clears |
| Replication | three snapshots, three requests, one crash, clock to 2 | full send, prune, incremental send |
| Docker | three containers, five requests, two faults | a failed replacement of a replacement |
| Compose | five requests, one crash, listings that fail | create, up, edit, down, delete |
| Instances | two names, three addresses, six requests | create, start, copy, start, remove a device |
| Locate | three workers, one restart, two threads | two starts and a stop, overlapping |
| Health | two alerts, one fault, counter to 1, clock to 1, window 1 | a rise, its message, the end of its window |
| Backup | two groups, two workers, one fault | backup, kill, restore or backup of either group, downloads into both |
| AtomicJson | two threads and a tick, documents of two writes, four temporaries, one crash | a document that can be torn, and a third save over it |

The questions are about pairs: a third actor adds states and no new pair. Only liveness
rests on that argument: the safety properties of these runs are proved for any number.
Backup was also explored once with three workers, without a violation.

Deadlock is checked in auth_web, where nothing is used up. In the other runs a behaviour
ends when a bound (requests, changes, temporaries, workers) is used up.

Fairness: threads and processes that have started run on, an armed
`threading.Timer` fires, a worker looks at its stop flag at every chunk
(`_fetch_file` calls `should_stop` before each read, and reads have a timeout).
The commands of a check have timeouts; that the update helper ends is an
assumption, since `_apply_thread` waits for it without one. Nothing obliges an
admin to act, a transfer to complete or the environment to fail.

## What the runs show

- A pending network change has its own timer, armed or fired, through stacked changes,
  failing helpers and stale callbacks (`TimerGuards`), and it ends (`PendingEnds`), with one
  exception: its timer ran out into a save that raised. That no other timer is left armed (`NoStrayTimer`) is proved and
  is not a property of a run.
- Requests racing on stale reads, late timers and stale tabs amount to changes tried,
  made final, confirmed or taken back one at a time (`ChangeIsAtomic`).
- Unless a change is stacked on an unfinished one, rest means the last confirmed
  configuration, live and on file (`RestsOnWorking`), when the helper succeeds and
  the process survives.
- The server's account requests are atomic, and whoever writes, an administrator
  remains: every copy of the store in flight already has one. What breaks that is a restore
  that brings none, or one in the server whose write meets a save.
- A serialised save is atomic against kills and power loss and rewrites nothing in
  place; the temporary file does not outlive a call whose process lives.
- The update flags always come down, failing checks included; a download cancel stops the
  worker even when its progress write erases the flag from the job file, because the
  signal does not depend on it.
- Backups keep one worker, since check and save are under one lock, where the pulls do
  not. The test of the worker that "another group took over the job" is then never true.
- dnsmasq ends up with what the stores say although the signals are sent outside the
  lock in any order, because each request signals after its own write and compares
  with what was on disk. File shares converge for the same reason, but for a file whose
  latest write or reload failed (`failed`).
- Overlapping merges in the UPS pages lose each other's edits but never the last
  MONITOR line or LISTEN address, unless one of them read nothing where there was a text.
- A UPS or proxy edit that nothing disturbs takes effect on disk and in the services at
  once, or leaves no trace in either: after a refusal the files are the old ones and every
  unit that ran runs again with them (`EditsAreAtomic`).
- The firewall stays open to the dashboard through renumbering, failed adds and put-backs,
  and so does each address family through edits and deletions, unless the guard took a
  rule of udp for an allow.
- Every storage page sees what the others made of a disk, except an unused array that
  `mdadm.conf` has under another name than the kernel.
- A replication never removes from the replica what the source still has, whatever
  the listing answered; pruning keeps its count through dying ticks and manual runs.
- One failing call in a recreate leaves the service running, if it did fail; its data stays
  on some container through any number of failures and of calls given up on.
- A stack with containers loses its file only to a deletion that asked a daemon which did
  not answer.
- The drive light ends off although overlapping starts can leave a worker nobody can
  stop.

### Disagreements with the code's own words

Kept as runs, with the quoted lines in PROJECT.json: `network_stacked`,
`docker_autoremove`, `compose_delete`, `smart_gap`, `json_unlocked`, `model_pulls`.

Also met while modelling, and excluded by name in the properties or their bounds:

- Network. A save that raises in the timeout callback (`network.py:276`) leaves the change
  pending with its only timer spent, until an admin acts (`unsaved` in `TimerGuards` and
  `PendingEnds`); one that raises in `_net_apply` (`network.py:293`) leaves the host on the
  dual configuration with nothing pending (`RestsOnWorking` is checked without faults). A
  restart while a change is finalizing, and a rollback whose helper call
  fails, leave a configuration nobody confirmed (`RestsOnWorking` is checked without
  crashes and helper faults). The route reads the configuration before the lock; a
  request overtaken by another applies a target that undoes it (`fresh` in
  `KeepsOldConnection`). A handoff secret minted after its change ended stays valid for
  the next; `HandoffOnce` still holds. A DHCP interface with an extra static address
  loses that address in the dual phase (`network.py:169`, against the comment at 486).
- Accounts. `set-password` can undo a change the server makes between its load and its
  save (`ServerIsAtomic` assumes there are no such writers). A restore takes no lock and
  shares its temporary name with the saves of the server (`nodeconfig.py:265`,
  `config.py:73`), so that a mixture of both can be renamed into place, and it does not
  ask whether the bundle has an administrator (`unsound` in `AdminRemains`).
- Updates. A check can start beside an apply (`updates.py:191-194`), and one still
  running when an apply ends records counts from before it.
- Jobs. A service that stops between saving the job and spawning its worker leaves pid
  0, which reads as alive for ever, and cancelling that job signals the service's own
  process group (the exception in `ViewHonest`). `_spawn_fetch_worker` says a restart
  leaves the download running; a new session does not leave the unit's control group,
  which systemd signals as a whole (`ServiceStops`).
- Backups. A model left short by an unfinished restore or by a download still under way
  (`llama.py:1195` does not ask) is backed up, over a good copy too, and files that arrive
  after rsync made its list are not copied; the delete checks for a running job without the lock (`llama.py:1247`); a SIGTERM before
  the handler is installed leaves the rsync running (`llama.py:1299`). The first three are
  excepted by `ManifestHonest` (`spoiled`).
- Storage. Checks and commands are not atomic: two overlapping requests can clear a
  disk in use (`excused`). An array that nothing uses and `mdadm.conf` does not define is
  taken for stale and may be wiped, and so is one it defines as `/dev/md/<name>`, as the
  dashboard itself does (`mdraid.py:89`): `disks.py:112` looks for the kernel name. A
  `zpool status` that fails reads as no pools (`disks.py:122`), and a wipe admitted on it is
  excepted too.
- Firewall. The guard counts `allow <port>/udp`, and an allow of another port that has this
  number in it, as an allow of the dashboard (`firewall.py:115`): enabling the firewall
  then closes the page without a warning (`excused`).
- Snapshots. The replication and schedule ticks save what they loaded over an edit made
  meanwhile; a pruning whose `zfs list` failed leaves the snapshots over the keep count
  until the next one (`debt` in `Retention`); the timer may be left on or off against the schedules when two saves race
  in `sync_autosnap_timer`.
- Shares. Overlapping Samba saves use one scratch file (`smb.py:79`), so a text can be
  applied that was not the one tested, and an edit can be lost. A `tee` that fails once it
  has emptied the file, and a reload that fails, end the request with the service on the
  old text and the file as it is (`failed`).
- Power. When the helper fails to read, every file reads as empty, and the next save
  writes over it; a page that reads in the moment of a put-back does the same (`lost` in
  `EssentialsStay`).
- Power and Proxy. The services page can start a unit on a text that its helper then takes
  back. In the helper of caddy a second `os.replace` that fails leaves a new certificate
  beside an old key (`install.sh:748`), and so does `openssl` ending half-way
  (`tls.py:26`); a put-back that fails leaves an empty file (all `disturbed`).
- Containers. A call the dashboard gave up on and the daemon carried out leaves a container
  stopped, renamed or made that the recreate knows nothing of, and an image that does not
  stay up under compose is not put back (`mixed` in `ServiceBack`). A stale PUT can bring back a removed address (`instances.py:364`); an
  operation whose wait times out counts as a success (`containers/client.py:159`).
- Light. A worker that ends late turns off the LED of the one that replaced it.
- Alerts. A failed delivery is recorded as sent, and a settings save can bring back an
  older alert state (`excused` in `Informed`).

## Proofs

Every theorem is of a whole specification and holds for every value of the constants
that the named assumptions allow: any number of threads, disks, stacks, workers, ticks,
and any bound on requests, restarts and faults, where the runs have two or three. The
theorems about components that a run combines are stated over the combining module
(`MCJobs`, `MCPlatform`, `MCServices`), as the run's own properties: a lemma `ComponentStep` says that
a behaviour takes the steps of its component only, and the rest is about that component.
The strengthenings are in the component's module, in its last section, so that TLC can
be given them as invariants; each was checked so before it was proved.

| Module | Theorems | Property |
|---|---|---|
| AuthStore_proofs | `TypeCorrect`, `LastAdminStays`, `ServerIsAtomic` | `TypeOK`, `AdminRemains`, `AtomicStore` |
| NetworkChange_proofs | `TypeCorrect`, `PendingIsGuarded`, `NoTimerLeft`, `HandoffOpensOnce`, `RollbackRestores`, `LinkIsCurrent`, `ConnectionKept`, `ChangesAreAtomic` | `TypeOK`, `TimerGuards`, `NoStrayTimer`, `HandoffOnce`, `RestsOnWorking`, `UrlIsCurrent`, `KeepsOldConnection`, `ChangeIsAtomic` |
| Jobs_proofs | `CheckFlagOwned`, `ApplyIsExclusive`, `ShownJobIsReal`, `OneRequestOneWorker` | `FlagHasOwner`, `OneApply`, `ViewHonest`, `OneWorker` |
| Files_proofs | `SavesAreAtomic`, `ReadersFindWholeFiles`, `NoTemporaryFileStays`, `OneBackupWorker`, `ManifestMeansWhole`, `AnAdministratorRemains` | `SaveIsAtomic`, `TargetWhole`, `NoLitter`, `OneCopier`, `ManifestHonest`, `AdminRemains` |
| Services_proofs | `ServicesRunTheirFile`, `RestartLosesNothing`, `EssentialLinesStay`, `UnitsRunTheDisk`, `CaddyRunsItsFile`, `PortStaysOpen`, `FamiliesStay`, `DnsmasqFollows`, `EditsTakeEffectOnce` | `SharesServed`, `RestartKeepsAll`, `EssentialsStay`, `DiskIsRunning`, `ProxyConsistent`, `NeverLockedOut`, `FamilyKept`, `ServiceFollows`, `EditsAreAtomic` |
| Host_proofs | `LedGoesDark`, `MessagesMatchRecord`, `LiveDisksAreKept`, `SnapshotsArePruned`, `ReplicaKeepsHistory` | `DarkAtRest`, `Informed`, `LiveDisksKept`, `Retention`, `HistoryKept` |
| Stacks_proofs | `StackKeepsItsFile`, `AddressesApart` | `ContainersManaged`, `MacsDiffer` |
| Docker_proofs | `DataSurvives`, `ServiceComesBack` | `DataKept`, `ServiceBack` |

`NoStrayTimer` and `DiskIsRunning` are properties of their modules that no run lists:
`EditsAreAtomic` says more than the second and is checked in its place.

Why each property is not inductive by itself, and what makes it so:

- `AdminRemains`: a save writes what was loaded earlier, perhaps before a restore. As long
  as no restore brought contents without one or met a save (`~unsound`), *every* copy in flight has an administrator: the file, what each thread has loaded, and what
  `set-password` has loaded. A store without users gets its first account back before
  `set-password` writes it (`Ensured`). The step lemmas show that `Apply`, `Stamp` and
  `SetPassword` keep an administrator in a copy that has one; for demotion and deletion
  this is where "count is at most one" meets "there is another one" (`AnotherAdmin`, by
  cardinality of finite sets).
  The run platform asks the same of the store beside `set-password` and restores, with
  its own accounts; `AnAdministratorRemains` proves it there, for any finite set of
  accounts of which one is the first administrator.
- `AtomicStore`, without other writers: a thread with a loaded copy holds the lock and
  its copy equals the file (`Fresh`); then each save is a step of the abstract store and
  every other step a stutter.
- `TypeOK` of NetworkChange: which fields a record holds in each phase (`Shape`), and a
  change under way has its number reserved (`Reserved`). `TimerGuards` and
  `NoStrayTimer` are inductive together over that: they say that the timer armed is the
  pending change's own, and that a callback which has the lock will end the change or put
  its token into `unsaved`. `UrlIsCurrent` needs only the types.
- `HandoffOnce`: a secret that can still be used, stored, about to be stored or to come,
  has opened nothing, and no two requests store the same one (`OnceInv`).
- `RestsOnWorking` and `KeepsOldConnection`, for `HelperFaults = {}` and
  `MaxFaults = 0`, the conditions under which they are true. Being at rest says nothing
  of the way there, so the invariant follows the configuration through the critical
  sections: a request between helper and save holds the lock (`Exclusive`), what runs is
  what the section applied (`LiveFollows`), and what a rollback would restore is what
  worked (`WorkingKept`); for the connection, what a request will apply was made from
  the base it read (`DualOfBase`), and what is applied and not yet saved already keeps
  the addresses (`SaveKeeps`).
- `ChangeIsAtomic`, for any faults and crashes: each step of the code is a step of NetSpec
  or a stutter. The helper half of a step is a stutter because the request that ran it
  holds the lock; the save half is the step, and that it saves what the helper applied,
  for the change that is pending, is the invariant of the critical sections (`HeldInv`). A
  timer or a request whose token is stale is a stutter.
- `FlagHasOwner`, `OneApply`: types, and an apply under way has its flag up.
- `ViewHonest`: who holds `_model_job_lock` (`LockInv`) and where pid 0 can still come
  from (`PidsKnown`). `OneWorker` adds `SoleWorker`: a live worker is the last one
  spawned, the job names it, and so does every copy that will be saved over the job. It
  is proved for servers that handle one download request at a time, as the run jobs
  checks it (`Pullers = {p}`); with two it is false, which `model_pulls` shows.
- `TargetWhole`, `NoLitter`: the lock of a process names the one caller inside
  (`LockInv`), a temporary name leads neither to a file in service nor to that of another
  process (`NamesApart`), and what a caller has written is in the file it has open
  (`Written`). For any length of document and any number of ticks beside the server.
- `SaveIsAtomic`, over the same invariant: the rename is the step `Save`, since the name
  still leads to what the caller wrote; every step before it leaves alone what is in
  service (`ServiceStays`), and a power loss cannot take contents that were synced before
  the rename (`InService`).
- `OneCopier`, `ManifestHonest`: as in ModelJob, every copy of the job in flight agrees
  with the worker that lives (`SoleCopier`); here `_start_backup_job` keeps its check and
  save under one lock, and the theorem needs no bound on requests. A worker that was not
  told to stop ends only after its rsync, and what that copied of a model that was whole
  and that nobody added to stays whole (`CopiedWhole`).
- `SharesServed`: a file its service does not run with is still being written, its reload
  is still to come (`ReloadComes`), or the latest of them failed. `RestartKeepsAll`: what is live and not on file
  is about to be saved (`SaveComes`).
- `EssentialsStay`: every text on disk, to be written or to be put back has the lines its
  file needs (`EssentialTexts`), but for the one that a put-back has emptied. Two stale
  merges of one file each had them when they were made, so whichever is written last still
  does; a merge made from an empty file is what `lost` records.
- `DiskIsRunning`, until a helper is disturbed: one root helper runs at a time; until it has applied its text the units
  are as the files were before, and once a unit has refused, whatever ran before would
  start again on the text that comes back, also while the file is empty (`HelperAlone`). What a unit runs with is the
  files it reads, so that an entry for `upsd` leaves `upsmon` steady is a lemma.
- `EditsAreAtomic`, on the invariants of Power and Proxy. For Power: what runs and is not
  restarted by a helper is left alone by its refusal (`UnplannedKept`), so the units shown
  are those of the files shown (`UpsShown`), and of an edit only the end of
  its helper changes either. For Proxy: what runs was accepted, and a pair keeps its old
  certificate until its helper replaces it (`Accepted`); from that the documents shown are
  whole and good (`WebWhole`) and a running caddy has the Caddyfile shown (`WebShown`).
- `ProxyConsistent`, until a helper is disturbed: the half of a certificate
  that is in place is the one its other half will match (`OwnPair`); a pair that is not
  whole is in the hands of its helper, which knows what it put and what it would put back;
  that is good; and a running caddy has the file or, while the helper is
  between replace and reload, the text before it (`OneHelper`, `RunsFile`).
- `NeverLockedOut`, `FamilyKept`, each request answered before the next and while the guard
  took no other rule for an allow: without a warning overridden no rule of the port
  denies, not even one about to be put back (`AllFine`). The invariant follows the request
  on its way (`Working`): the guard of enable and default-deny has found an allow of the
  page and nothing removes it meanwhile; a deletion that was let through leaves another
  rule of each family that had one, at another number (`KeepsBut`); only an edit between
  its two halves may have taken a family's last allow, and then the rule it adds, and the
  one it would put back, gives it one (`Restores`). `had` is the families that had an allow
  when the request began. The lemmas say what inserting and removing do to numbers and
  families.
- `ServiceFollows`: one thread is inside the lock (`OneHolder`); the files say what the
  stores say, or what they said before the change under the lock (`FilesFollow`); and
  dnsmasq has read what the files say or a thread is going to signal it, with a restart
  where the main file differs (`SignalFollows`). The signals go out in any order, but each
  comes after its own write, so the last one to arrive finds the last files.
- `Retention`, unless the latest pruning owes something (`debt`): what no pruning under way is about to destroy is within the keep count
  (`Pruned`). That the list a pruning makes leaves at most `keep` snapshots is counting: of
  those with fewer than `keep` newer ones, the oldest has all the others above it
  (`Newest`, by cardinality of finite sets).
- `HistoryKept`: one process replicates (`OneSender`), what it knows of the replica is still
  so, and what the replica and the source share it has seen on the source (`KnowsBoth`);
  then everything shared is at most the base, by the greatest element of a set of numbers,
  and a transfer keeps it however it breaks.
- `DarkAtRest`: a light that is on has a worker that will turn it off, and an entry of
  the table a worker alive or about to be spawned (`LitHasOwner`, `JobHasOwner`); spawned
  numbers are fresh.
- `Informed`: while a tick runs, what it loaded says what was told (`LoadedIsTold`), and
  its queue is what remains to be told (`Underway`).
- `LiveDisksKept`: as long as requests did not overlap and `zpool status` answered, the check of a wipe sees a pool
  or a volume group in use by the signature of its disks (`Labelled`), one request runs
  at a time, and what a wipe's check found still holds at its last command (`Spared`).
  Every command of the four pages keeps `Labelled`: each takes only disks that nothing has
  open, imports only a pool whose every disk is labelled, extends a group only by
  labelled disks, or relabels only what leaves.
- `ContainersManaged`: until something is disturbed one request runs at a time, and its
  step tells what became of the stack since it was granted, as long as every deletion heard
  the daemon (`Granted`).
- `MacsDiffer`: the addresses an instance uses or will use when started are disjoint from
  those of any other that is not shared, and none is yet to be handed out.
- `DataKept`: some container holding the data is *settled*, no thread is about to drop
  it (`DataSettled`); that a drop in one replacement does not take another's container
  needs that overlapping replacements have different new containers, and that a new
  container never is somebody's old one (`Faithfully`). `ServiceBack`: how far the one
  request has come tells which containers exist under which name (`Placed`), until a call
  given up on or compose makes that untrue (`mixed`). Both are
  about containers the daemon does not remove when they stop (`AutoRemove <- FALSE` in
  `MCPlatform`); for the other kind `docker_autoremove` is a finding.

The proofs rest on the named assumptions of the modules (finite sets of users and
admins, bundles, requests and specs well formed, bounds and keep
counts that are numbers, item names that are not those of the settings beside them,
values that stand for nothing being nobody), which TLC evaluates on the runs' constants.

What proving changed in the models. `KeepsOldConnection` was false beyond the run's
constants: an interface with DHCP and static addresses loses the static ones in the dual
phase (`network.py:169`, against the comment at 486); it is excluded by name (`Mixed`).
Overlapping CASE arms in Docker, Dnsmasq and FileShares, which TLC resolves to the first
that holds and the logic leaves open, are disjoint now. The bound on containers in Docker
is a guard of the actions that create one. Power and Firewall no longer use recursive
sequence operators, and the snapshots of Replication are sets of numbers, the order they
were taken in, instead of sequences: the prefix a broken transfer leaves and the newest a
pruning keeps are comparisons of numbers.

Only model-checked is the liveness (`PendingEnds`, `ApplyEnds`, `CancelStops`), which
TLAPS does not prove.

## Abstractions

Time is abstract: an armed timer may fire, and a cache may be stale, at any
moment. A password is a value and its hash matches it; a legacy bare-string
account is the administrator record it is read as. Addresses are a few values,
a lease is one value. A text of a configuration file is a function from its entries to
a few values, one of which the service refuses. A command of an external tool takes
effect at once or is refused; what it refuses is stated where the module says "the
kernel", "the daemon" or "the tools", and marked external. A dead worker is gone at
once: a zombie child is reaped by the next command the server runs. Document contents
are the author of each write.

## Not modelled

- Single sign-on and its replay cache: one dictionary under one lock; what matters is
  signature arithmetic and clock windows, which its test vectors fix.
- Login throttle and failure counter (`auth.py:243`), the session secret, the demotion
  of an account between authentication and a handoff mint, the Samba password mirror.
- The registry of modules and plugins: discovery runs once in sequence at start, its
  file is one unlocked save of the kind `json_unlocked` shows.
- Maintenance, discovery, commands, validators, and the services page where it is not
  beside a helper of Power or Proxy: one command per request.
- The bytes of a transfer (`llama.py:818`) and everything about model settings,
  presets, GPU and external model servers: readings and single-file settings.
- Container images, networks, storage and consoles; Docker registries, networks,
  volumes and console: one call to a daemon, or a relay of bytes.
- History database, metrics, summary, audit, logs, diagnostics, front end: they observe.
- Datasets and shares of ZFS, growth of file systems, SMART self tests, ad-block lists,
  leases, the shutdown decisions of upsmon.
- Consistency between the files of one configuration bundle.

## Plan

The modules of the plan are written, and every safety property of the passing runs, the
refinements included, is proved. The liveness properties remain with TLC. What is not
modelled is listed above; a change to `modules/network.py`, `core/auth.py`,
`modules/nut.py` or `modules/caddy.py` should be made in the model first, since those have
an abstract specification to hold it to.
