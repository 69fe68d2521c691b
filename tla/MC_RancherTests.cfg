SPECIFICATION Spec
CONSTANTS
    Fixtures = {"host_ssh_containers", "socat_containers", "rancher_compose_container",
                "rancher_cli_container", "kube_hosts", "certs",
                "glusterfs_glusterconvoy", "ha_hosts"}
    Hosts = {1, 2, 3}
    OwnHosts = {1}
    ha_host_count = 2
    MaxUsed = 2
    Sessions = 2
    SessionFaults = 1
    Balanced = 2
    RecipeCalls = 2
    RecipeFaults = 1
    Containers = {c1, c2}
    Unmanaged = {u1}
    Scale = 2
    Extra = 2
    Namespaces = {1, 2, 3}
    Containing <- SomeContaining
    Protected = {2}
    Pods = {p1, p2}
    PodScale = 1
    Addresses = {p1, p2}
    ing_scale = 2
    Rounds = 2
    KubeFaults = 1
    SetupSessions = 3
    SetupFaults = 1
    SnapshotCount = 2
    Reverts = 2
    VmFaults = 2
    ReplicaRounds = 2
    ReplicaFaults = 1
INVARIANTS
    TypeOK SessionsAreSeparate RecipesActivate ServicesAreRestored DeletedMeansGone
    VolumeIsTakenBack ReplicaLeftAndRemoved
CHECK_DEADLOCK FALSE
