--------------------------- MODULE ContainerEngine ---------------------------
(***************************************************************************)
(* How the daemon runs Corrosion, the gateway and DNS on a machine: the    *)
(* specifications it builds, and the adopt-or-recreate decision about what *)
(* is there already (runtime/engine.rs, runtime/diff.rs, runtime/spec.rs,  *)
(* runtime/corrosion.rs, services/*.rs).                                   *)
(*                                                                         *)
(* An instance (container, systemd unit or child process) is what it was   *)
(* started from, the id of the container whose network namespace it        *)
(* joined, and whether it runs.  Field values are abstract, one per kind   *)
(* and network; what Docker adds on its own (the image's entrypoint, PATH, *)
(* restart policy "no", pid mode "", ids for names in the network mode) is *)
(* kept, because the comparison has to look through it.                    *)
(***************************************************************************)
CONSTANT None

-----------------------------------------------------------------------------
(* Specifications.  The network reaches the mounts of Corrosion, and the    *)
(* environment of the sidecars.                                             *)

docker_corrosion_runtime(n) ==
    [image |-> "corro", entrypoint |-> None, env |-> {},
     binds |-> {<<"config", n>>, <<"data", "shared">>},
     mode |-> "container:ployz-networking",
     restart |-> None, memory |-> None, pid |-> None]

host_corrosion_runtime(n) ==
    [docker_corrosion_runtime(n) EXCEPT !.binds = {<<"config", n>>}, !.mode = None]

build_gateway_sidecar_spec(n) ==
    [image |-> "gw", env |-> {<<"NETWORK", n>>}, binds |-> {<<"gateway", n>>},
     network_container |-> "ployz-networking"]
build_dns_sidecar_spec(n) ==
    [image |-> "dns", env |-> {<<"NETWORK", n>>}, binds |-> {<<"data", "shared">>},
     network_container |-> "ployz-networking"]

ContainerOf(name) == IF name = "ployz-networking" THEN "container:ployz-networking" ELSE None
sidecar_to_runtime_spec(s) ==
    [image |-> s.image, entrypoint |-> None, env |-> s.env, binds |-> s.binds,
     mode |-> ContainerOf(s.network_container),
     restart |-> None, memory |-> None, pid |-> None]

(* The configuration the service of a kind has for a network.               *)
SpecOf(kind, n) ==
    CASE kind = "corro" -> docker_corrosion_runtime(n)
      [] kind = "gw"    -> sidecar_to_runtime_spec(build_gateway_sidecar_spec(n))
      [] kind = "dns"   -> sidecar_to_runtime_spec(build_dns_sidecar_spec(n))

-----------------------------------------------------------------------------
(* engine.rs: the operations on a container, and what inspect reads.        *)

(* An operation is what it leaves (`done') and what it may leave when it    *)
(* reports an error (`failed').  Stopping or removing what is not there is  *)
(* no error; a forced remove that fails is only logged, and the create      *)
(* after it then meets the name.                                            *)
stop(info) == IF info = None THEN None ELSE [info EXCEPT !.run = FALSE]
remove(info) == [done |-> None, failed |-> {info, stop(info)}]
force_remove(info) == {None, info}

create_and_start(info, spec, parent) ==
    LET made(run) == [spec |-> spec, parent |-> parent, run |-> run]
    IN  [action |-> "Created", done |-> made(TRUE),
         failed |-> force_remove(info) \cup {made(FALSE), made(TRUE)}]

Or(value, default) == IF value = None THEN default ELSE value
observe(info) ==
    [running |-> info.run,
     image |-> info.spec.image,
     entrypoint |-> Or(info.spec.entrypoint, "from-image"),
     env |-> info.spec.env \cup {<<"PATH", "from-image">>},
     binds |-> info.spec.binds,
     mode |-> IF info.spec.mode = None THEN None ELSE "container:id",
     restart |-> Or(info.spec.restart, "no"),
     memory |-> info.spec.memory,
     pid |-> Or(info.spec.pid, ""),
     parent |-> info.parent]

-----------------------------------------------------------------------------
(* diff.rs                                                                  *)

parent_id_matches(obs, parent) == parent = None \/ obs.parent = parent

entrypoint_equal(obs, want) == want = None \/ obs = want

env_equal(obs, want) ==
    LET ignorePath == \A e \in want : e[1] # "PATH"
    IN  {e \in obs : ~(ignorePath /\ e[1] = "PATH")} = want

ContainerModes == {"container:id", "container:ployz-networking"}
StrictModes(obs, want) == obs = want
network_mode_equal(obs, want) == obs = want \/ {obs, want} \subseteq ContainerModes

normalize_restart_policy(policy) == IF policy = "no" THEN None ELSE policy
restart_policy_equal(obs, want) == normalize_restart_policy(obs) = want

normalize_optional_string(value) == IF value = "" THEN None ELSE value
pid_mode_equal(obs, want) == normalize_optional_string(obs) = normalize_optional_string(want)

eval_spec_change(obs, spec) ==
    IF ~obs.running
    THEN "Missing"
    ELSE IF /\ obs.image = spec.image
            /\ entrypoint_equal(obs.entrypoint, spec.entrypoint)
            /\ env_equal(obs.env, spec.env)
            /\ obs.binds = spec.binds
            /\ network_mode_equal(obs.mode, spec.mode)
            /\ restart_policy_equal(obs.restart, spec.restart)
            /\ obs.memory = spec.memory
            /\ pid_mode_equal(obs.pid, spec.pid)
         THEN "InSync"
         ELSE "Drifted"

-----------------------------------------------------------------------------
(* ContainerEngine::ensure: a changed parent is drift, whatever the rest    *)
(* says; anything but InSync removes the container and creates it.          *)
IgnoreParent(info, spec, parent) ==
    IF info = None THEN "Missing" ELSE eval_spec_change(observe(info), spec)
Change(info, spec, parent) ==
    IF info = None
    THEN "Missing"
    ELSE IF ~parent_id_matches(observe(info), parent)
         THEN "Drifted"
         ELSE eval_spec_change(observe(info), spec)

ensure(info, spec, parent) ==
    IF Change(info, spec, parent) = "InSync"
    THEN [action |-> "Adopted", done |-> info, failed |-> {info}]
    ELSE create_and_start(info, spec, parent)

-----------------------------------------------------------------------------
(* runtime/corrosion.rs: the store as a container, or as the one child of   *)
(* the daemon, left alone while it runs.                                    *)
DockerCorrosionStart(info, n, parent) == ensure(info, docker_corrosion_runtime(n), parent)
DockerCorrosionStop(info) == remove(info)

HostCorrosionStart(child, n) ==
    IF child # None /\ child.run
    THEN [action |-> "Adopted", done |-> child, failed |-> {child}]
    ELSE [action |-> "Created", failed |-> {child},
          done |-> [spec |-> host_corrosion_runtime(n), parent |-> None, run |-> TRUE]]
HostCorrosionStop(child) == [done |-> None, failed |-> {child}]

-----------------------------------------------------------------------------
(* services/supervisor.rs: a sidecar as a container, or as a systemd unit,  *)
(* whose file is compared as text.                                          *)
ensure_docker(info, spec, parent) == ensure(info, sidecar_to_runtime_spec(spec), parent)
DockerShutdown(info) == remove(info)

build_unit_content(spec) == <<spec.image, spec.env>>
UnitAdopted(unit, spec) ==
    /\ unit # None /\ build_unit_content(unit.spec) = build_unit_content(spec)
    /\ unit.run
(* systemctl restart and stop of a unit.                                    *)
run_systemctl(verb, unit) ==
    IF unit = None THEN None ELSE [unit EXCEPT !.run = (verb = "restart")]
(* The unit file is written before systemctl is asked: a failing reload or  *)
(* restart leaves the new file, with the old process or with none.          *)
ensure_systemd(unit, spec) ==
    LET written == [spec |-> sidecar_to_runtime_spec(spec), parent |-> None,
                    run |-> unit # None /\ unit.run]
    IN  IF UnitAdopted(unit, spec)
        THEN [action |-> "Adopted", done |-> unit, failed |-> {unit}]
        ELSE [action |-> "Created", done |-> run_systemctl("restart", written),
              failed |-> {unit, written, run_systemctl("stop", written)}]
SystemdShutdown(unit) == [done |-> run_systemctl("stop", unit), failed |-> {unit}]
==============================================================================
