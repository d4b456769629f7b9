----------------------------- MODULE HostInstall -----------------------------
(***************************************************************************)
(* What `ployz daemon install` leaves on a host, step by step               *)
(* (install.rs), and the installer script that ends with it.  A host is     *)
(*   cli   the version of the binaries in the user's bin directory;         *)
(*   sys   the versions of the promoted copies in /usr/local/bin;           *)
(*   unit  per service mode, the runtime the service definition names;      *)
(*   run   per service mode, the daemon that runs: its version and runtime; *)
(*   conf  the service mode whose socket the client configuration names;    *)
(*   mani  the service mode in the install manifest ("draft": none yet).    *)
(***************************************************************************)
EXTENDS Sequences, SequencesExt
CONSTANT None

Modes == {"user", "system"}
Binaries == <<"ployz.sh", "ployz", "ployzd", "ployz-gateway", "ployz-dns", "corrosion">>
PerMode(v) == [mode \in Modes |-> v]
Bare == [cli |-> None, sys |-> [b \in {Binaries[i] : i \in DOMAIN Binaries} |-> None],
         unit |-> PerMode(None), run |-> PerMode(None), conf |-> None, mani |-> None]

-----------------------------------------------------------------------------
(* client_paths: the socket the client configuration is to name.            *)
client_paths(o) == IF o.runtime = "host" /\ o.mode = "system" THEN "system" ELSE "user"
write_client_config(h, o) == [h EXCEPT !.conf = client_paths(o)]

(* One round of the loop of promote_system_binaries: the copy goes to a     *)
(* temporary name and is renamed, so a file is the old one or the new one.  *)
promote(h, b) == [h EXCEPT !.sys[b] = h.cli]

(* The user's service names the runtime and the user's binary; the system   *)
(* unit is an asset that runs the promoted binary on the host.              *)
Version(h, mode) == IF mode = "user" THEN h.cli ELSE h.sys["ployzd"]
StartDaemon(h, mode) ==
    [h EXCEPT !.run[mode] = [version |-> Version(h, mode), runtime |-> h.unit[mode]]]

(* systemctl enable --now starts what does not run, and leaves alone what   *)
(* does; launchctl kickstart -k restarts it.                                *)
enable_now(h, mode) == IF h.run[mode] # None THEN h ELSE StartDaemon(h, mode)
kickstart(h) == StartDaemon(h, "user")

install_systemd_user_service(h, step, rt) ==
    IF step = "unit" THEN [h EXCEPT !.unit["user"] = rt] ELSE enable_now(h, "user")
install_launch_agent(h, step, rt) ==
    IF step = "unit" THEN [h EXCEPT !.unit["user"] = rt] ELSE kickstart(h)
install_system_service(h, step) ==
    IF step = "unit" THEN [h EXCEPT !.unit["system"] = "host"] ELSE enable_now(h, "system")

(* InstallManifest::store_to_path: the last step.                           *)
store_to_path(h, o) == [h EXCEPT !.mani = o.mode]

-----------------------------------------------------------------------------
(* o is [os, runtime, mode].  A system service needs the host runtime, and  *)
(* systemd.                                                                 *)
validate_runtime(o) == o.mode = "system" => o.runtime = "host" /\ o.os = "linux"

ensure_service(h, step, o) ==
    CASE o.mode = "system" -> install_system_service(h, step)
      [] o.mode = "user" /\ o.os = "linux" -> install_systemd_user_service(h, step, o.runtime)
      [] o.mode = "user" /\ o.os = "macos" -> install_launch_agent(h, step, o.runtime)

Steps(mode) ==
    <<"config">> \o (IF mode = "user" THEN <<>> ELSE Binaries) \o <<"unit", "start", "manifest">>

Step(h, step, o) ==
    CASE step = "config"            -> write_client_config(h, o)
      [] step \in {"unit", "start"} -> ensure_service(h, step, o)
      [] step = "manifest"          -> store_to_path(h, o)
      [] OTHER                      -> promote(h, step)

(* There is a manifest, and the files it names exist.                       *)
load_from_path(h) == h.mani # None
validate_install_manifest(h) == h.cli # None

(* daemon_install, when it gets through its first k steps.                  *)
daemon_install(h, o, k) ==
    IF ~(validate_runtime(o) /\ load_from_path(h) /\ validate_install_manifest(h)) THEN h
    ELSE FoldLeft(LAMBDA host, step : Step(host, step, o), h, SubSeq(Steps(o.mode), 1, k))
AllSteps(mode) == Len(Steps(mode))

(* The installer script: the binaries, a manifest, then daemon_install.     *)
write_manifest(h) == [h EXCEPT !.mani = "draft"]
install_payload(h, version) == write_manifest([h EXCEPT !.cli = version])
run_installer(h, version, o, k) == daemon_install(install_payload(h, version), o, k)

(* `ployz status`: the configured socket is answered.                       *)
StatusOk(h) == h.conf # None /\ h.run[h.conf] # None
==============================================================================
