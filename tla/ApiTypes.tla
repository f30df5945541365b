------------------------------ MODULE ApiTypes ------------------------------
(***************************************************************************)
(* The messages of the protocol: for each message of pkg/api, the fields   *)
(* of its Go struct with their types.  One definition per struct; the      *)
(* bookkeeping fields state and sizeCache are left out, unknownFields is   *)
(* part of every message (see Codec).  Enumerations are int32.             *)
(***************************************************************************)
\* The types of fields: scalars that travel as variable-length integers, with
\* their width; strings; messages by reference; slices and maps of these.
Varint(width)   == [kind |-> "varint", of |-> width]
String          == [kind |-> "string"]
Strings         == [kind |-> "strings"]
Packed(width)   == [kind |-> "packed", of |-> width]
Msg(type)       == [kind |-> "message", of |-> type]
List(type)      == [kind |-> "messages", of |-> type]
Map(key, value) == [kind |-> "map", key |-> key, value |-> value]

RegisterPluginRequestType == [PluginName |-> String, PluginIdx |-> String]
UpdateContainersRequestType == [Update |-> List("ContainerUpdate"),
    Evict |-> List("ContainerEviction")]
UpdateContainersResponseType == [Failed |-> List("ContainerUpdate")]
LogRequestType == [Msg |-> String, Level |-> Varint("int32")]
ConfigureRequestType == [Config |-> String, RuntimeName |-> String, RuntimeVersion |-> String,
    RegistrationTimeout |-> Varint("int64"), RequestTimeout |-> Varint("int64")]
ConfigureResponseType == [Events |-> Varint("int32")]
SynchronizeRequestType == [Pods |-> List("PodSandbox"), Containers |-> List("Container"),
    More |-> Varint("bool")]
SynchronizeResponseType == [Update |-> List("ContainerUpdate"), More |-> Varint("bool")]
CreateContainerRequestType == [Pod |-> Msg("PodSandbox"), Container |-> Msg("Container")]
CreateContainerResponseType == [Adjust |-> Msg("ContainerAdjustment"),
    Update |-> List("ContainerUpdate"), Evict |-> List("ContainerEviction")]
UpdateContainerRequestType == [Pod |-> Msg("PodSandbox"), Container |-> Msg("Container"),
    LinuxResources |-> Msg("LinuxResources")]
UpdateContainerResponseType == [Update |-> List("ContainerUpdate"),
    Evict |-> List("ContainerEviction")]
StopContainerRequestType == [Pod |-> Msg("PodSandbox"), Container |-> Msg("Container")]
StopContainerResponseType == [Update |-> List("ContainerUpdate")]
UpdatePodSandboxRequestType == [Pod |-> Msg("PodSandbox"),
    OverheadLinuxResources |-> Msg("LinuxResources"), LinuxResources |-> Msg("LinuxResources")]
UpdatePodSandboxResponseType == <<>>
StateChangeEventType == [Event |-> Varint("int32"), Pod |-> Msg("PodSandbox"),
    Container |-> Msg("Container")]
ValidateContainerAdjustmentRequestType == [Pod |-> Msg("PodSandbox"),
    Container |-> Msg("Container"), Adjust |-> Msg("ContainerAdjustment"),
    Update |-> List("ContainerUpdate"), Owners |-> Msg("OwningPlugins"),
    Plugins |-> List("PluginInstance")]
PluginInstanceType == [Name |-> String, Index |-> String]
ValidateContainerAdjustmentResponseType == [Reject |-> Varint("bool"), Reason |-> String]
EmptyType == <<>>
PodSandboxType == [Id |-> String, Name |-> String, Uid |-> String, Namespace |-> String,
    Labels |-> Map("string", String), Annotations |-> Map("string", String),
    RuntimeHandler |-> String, Linux |-> Msg("LinuxPodSandbox"), Pid |-> Varint("uint32"),
    Ips |-> Strings]
LinuxPodSandboxType == [PodOverhead |-> Msg("LinuxResources"),
    PodResources |-> Msg("LinuxResources"), CgroupParent |-> String, CgroupsPath |-> String,
    Namespaces |-> List("LinuxNamespace"), Resources |-> Msg("LinuxResources")]
ContainerType == [Id |-> String, PodSandboxId |-> String, Name |-> String,
    State |-> Varint("int32"), Labels |-> Map("string", String),
    Annotations |-> Map("string", String), Args |-> Strings, Env |-> Strings,
    Mounts |-> List("Mount"), Hooks |-> Msg("Hooks"), Linux |-> Msg("LinuxContainer"),
    Pid |-> Varint("uint32"), Rlimits |-> List("POSIXRlimit"), CreatedAt |-> Varint("int64"),
    StartedAt |-> Varint("int64"), FinishedAt |-> Varint("int64"), ExitCode |-> Varint("int32"),
    StatusReason |-> String, StatusMessage |-> String, CDIDevices |-> List("CDIDevice"),
    User |-> Msg("User")]
MountType == [Destination |-> String, Type |-> String, Source |-> String, Options |-> Strings]
HooksType == [Prestart |-> List("Hook"), CreateRuntime |-> List("Hook"),
    CreateContainer |-> List("Hook"), StartContainer |-> List("Hook"),
    Poststart |-> List("Hook"), Poststop |-> List("Hook")]
HookType == [Path |-> String, Args |-> Strings, Env |-> Strings, Timeout |-> Msg("OptionalInt")]
LinuxContainerType == [Namespaces |-> List("LinuxNamespace"), Devices |-> List("LinuxDevice"),
    Resources |-> Msg("LinuxResources"), OomScoreAdj |-> Msg("OptionalInt"),
    CgroupsPath |-> String, IoPriority |-> Msg("LinuxIOPriority"),
    SeccompProfile |-> Msg("SecurityProfile"), SeccompPolicy |-> Msg("LinuxSeccomp"),
    Sysctl |-> Map("string", String), NetDevices |-> Map("string", Msg("LinuxNetDevice")),
    Scheduler |-> Msg("LinuxScheduler"), Rdt |-> Msg("LinuxRdt")]
LinuxNamespaceType == [Type |-> String, Path |-> String]
LinuxDeviceType == [Path |-> String, Type |-> String, Major |-> Varint("int64"),
    Minor |-> Varint("int64"), FileMode |-> Msg("OptionalFileMode"),
    Uid |-> Msg("OptionalUInt32"), Gid |-> Msg("OptionalUInt32")]
LinuxDeviceCgroupType == [Allow |-> Varint("bool"), Type |-> String,
    Major |-> Msg("OptionalInt64"), Minor |-> Msg("OptionalInt64"), Access |-> String]
CDIDeviceType == [Name |-> String]
UserType == [Uid |-> Varint("uint32"), Gid |-> Varint("uint32"),
    AdditionalGids |-> Packed("uint32")]
LinuxResourcesType == [Memory |-> Msg("LinuxMemory"), Cpu |-> Msg("LinuxCPU"),
    HugepageLimits |-> List("HugepageLimit"), BlockioClass |-> Msg("OptionalString"),
    RdtClass |-> Msg("OptionalString"), Unified |-> Map("string", String),
    Devices |-> List("LinuxDeviceCgroup"), Pids |-> Msg("LinuxPids")]
LinuxMemoryType == [Limit |-> Msg("OptionalInt64"), Reservation |-> Msg("OptionalInt64"),
    Swap |-> Msg("OptionalInt64"), Kernel |-> Msg("OptionalInt64"),
    KernelTcp |-> Msg("OptionalInt64"), Swappiness |-> Msg("OptionalUInt64"),
    DisableOomKiller |-> Msg("OptionalBool"), UseHierarchy |-> Msg("OptionalBool")]
LinuxCPUType == [Shares |-> Msg("OptionalUInt64"), Quota |-> Msg("OptionalInt64"),
    Period |-> Msg("OptionalUInt64"), RealtimeRuntime |-> Msg("OptionalInt64"),
    RealtimePeriod |-> Msg("OptionalUInt64"), Cpus |-> String, Mems |-> String]
HugepageLimitType == [PageSize |-> String, Limit |-> Varint("uint64")]
SecurityProfileType == [ProfileType |-> Varint("int32"), LocalhostRef |-> String]
POSIXRlimitType == [Type |-> String, Hard |-> Varint("uint64"), Soft |-> Varint("uint64")]
LinuxPidsType == [Limit |-> Varint("int64")]
LinuxIOPriorityType == [Class |-> Varint("int32"), Priority |-> Varint("int32")]
LinuxNetDeviceType == [Name |-> String]
LinuxSchedulerType == [Policy |-> Varint("int32"), Nice |-> Varint("int32"),
    Priority |-> Varint("int32"), Flags |-> Packed("int32"), Runtime |-> Varint("uint64"),
    Deadline |-> Varint("uint64"), Period |-> Varint("uint64")]
ContainerAdjustmentType == [Annotations |-> Map("string", String), Mounts |-> List("Mount"),
    Env |-> List("KeyValue"), Hooks |-> Msg("Hooks"), Linux |-> Msg("LinuxContainerAdjustment"),
    Rlimits |-> List("POSIXRlimit"), CDIDevices |-> List("CDIDevice"), Args |-> Strings]
LinuxContainerAdjustmentType == [Devices |-> List("LinuxDevice"),
    Resources |-> Msg("LinuxResources"), CgroupsPath |-> String,
    OomScoreAdj |-> Msg("OptionalInt"), IoPriority |-> Msg("LinuxIOPriority"),
    SeccompPolicy |-> Msg("LinuxSeccomp"), Namespaces |-> List("LinuxNamespace"),
    Sysctl |-> Map("string", String), NetDevices |-> Map("string", Msg("LinuxNetDevice")),
    Scheduler |-> Msg("LinuxScheduler"), Rdt |-> Msg("LinuxRdt")]
LinuxSeccompType == [DefaultAction |-> String, DefaultErrno |-> Msg("OptionalUInt32"),
    Architectures |-> Strings, Flags |-> Strings, ListenerPath |-> String,
    ListenerMetadata |-> String, Syscalls |-> List("LinuxSyscall")]
LinuxSyscallType == [Names |-> Strings, Action |-> String, ErrnoRet |-> Msg("OptionalUInt32"),
    Args |-> List("LinuxSeccompArg")]
LinuxSeccompArgType == [Index |-> Varint("uint32"), Value |-> Varint("uint64"),
    ValueTwo |-> Varint("uint64"), Op |-> String]
ContainerUpdateType == [ContainerId |-> String, Linux |-> Msg("LinuxContainerUpdate"),
    IgnoreFailure |-> Varint("bool")]
LinuxContainerUpdateType == [Resources |-> Msg("LinuxResources")]
ContainerEvictionType == [ContainerId |-> String, Reason |-> String]
LinuxRdtType == [ClosId |-> Msg("OptionalString"), Schemata |-> Msg("OptionalRepeatedString"),
    EnableMonitoring |-> Msg("OptionalBool"), Remove |-> Varint("bool")]
KeyValueType == [Key |-> String, Value |-> String]
OptionalStringType == [Value |-> String]
OptionalRepeatedStringType == [Value |-> Strings]
OptionalIntType == [Value |-> Varint("int64")]
OptionalInt32Type == [Value |-> Varint("int32")]
OptionalUInt32Type == [Value |-> Varint("uint32")]
OptionalInt64Type == [Value |-> Varint("int64")]
OptionalUInt64Type == [Value |-> Varint("uint64")]
OptionalBoolType == [Value |-> Varint("bool")]
OptionalFileModeType == [Value |-> Varint("uint32")]
CompoundFieldOwnersType == [Owners |-> Map("string", String)]
FieldOwnersType == [Simple |-> Map("int32", String),
    Compound |-> Map("int32", Msg("CompoundFieldOwners"))]
OwningPluginsType == [Owners |-> Map("string", Msg("FieldOwners"))]

\* The struct of each message, by its name.
Types == [RegisterPluginRequest |-> RegisterPluginRequestType,
    UpdateContainersRequest |-> UpdateContainersRequestType,
    UpdateContainersResponse |-> UpdateContainersResponseType, LogRequest |-> LogRequestType,
    ConfigureRequest |-> ConfigureRequestType, ConfigureResponse |-> ConfigureResponseType,
    SynchronizeRequest |-> SynchronizeRequestType,
    SynchronizeResponse |-> SynchronizeResponseType,
    CreateContainerRequest |-> CreateContainerRequestType,
    CreateContainerResponse |-> CreateContainerResponseType,
    UpdateContainerRequest |-> UpdateContainerRequestType,
    UpdateContainerResponse |-> UpdateContainerResponseType,
    StopContainerRequest |-> StopContainerRequestType,
    StopContainerResponse |-> StopContainerResponseType,
    UpdatePodSandboxRequest |-> UpdatePodSandboxRequestType,
    UpdatePodSandboxResponse |-> UpdatePodSandboxResponseType,
    StateChangeEvent |-> StateChangeEventType,
    ValidateContainerAdjustmentRequest |-> ValidateContainerAdjustmentRequestType,
    PluginInstance |-> PluginInstanceType,
    ValidateContainerAdjustmentResponse |-> ValidateContainerAdjustmentResponseType,
    Empty |-> EmptyType, PodSandbox |-> PodSandboxType, LinuxPodSandbox |-> LinuxPodSandboxType,
    Container |-> ContainerType, Mount |-> MountType, Hooks |-> HooksType, Hook |-> HookType,
    LinuxContainer |-> LinuxContainerType, LinuxNamespace |-> LinuxNamespaceType,
    LinuxDevice |-> LinuxDeviceType, LinuxDeviceCgroup |-> LinuxDeviceCgroupType,
    CDIDevice |-> CDIDeviceType, User |-> UserType, LinuxResources |-> LinuxResourcesType,
    LinuxMemory |-> LinuxMemoryType, LinuxCPU |-> LinuxCPUType,
    HugepageLimit |-> HugepageLimitType, SecurityProfile |-> SecurityProfileType,
    POSIXRlimit |-> POSIXRlimitType, LinuxPids |-> LinuxPidsType,
    LinuxIOPriority |-> LinuxIOPriorityType, LinuxNetDevice |-> LinuxNetDeviceType,
    LinuxScheduler |-> LinuxSchedulerType, ContainerAdjustment |-> ContainerAdjustmentType,
    LinuxContainerAdjustment |-> LinuxContainerAdjustmentType,
    LinuxSeccomp |-> LinuxSeccompType, LinuxSyscall |-> LinuxSyscallType,
    LinuxSeccompArg |-> LinuxSeccompArgType, ContainerUpdate |-> ContainerUpdateType,
    LinuxContainerUpdate |-> LinuxContainerUpdateType,
    ContainerEviction |-> ContainerEvictionType, LinuxRdt |-> LinuxRdtType,
    KeyValue |-> KeyValueType, OptionalString |-> OptionalStringType,
    OptionalRepeatedString |-> OptionalRepeatedStringType, OptionalInt |-> OptionalIntType,
    OptionalInt32 |-> OptionalInt32Type, OptionalUInt32 |-> OptionalUInt32Type,
    OptionalInt64 |-> OptionalInt64Type, OptionalUInt64 |-> OptionalUInt64Type,
    OptionalBool |-> OptionalBoolType, OptionalFileMode |-> OptionalFileModeType,
    CompoundFieldOwners |-> CompoundFieldOwnersType, FieldOwners |-> FieldOwnersType,
    OwningPlugins |-> OwningPluginsType]
=============================================================================
