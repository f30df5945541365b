------------------------------ MODULE ApiTables -----------------------------
(***************************************************************************)
(* What the generated codec of each message consists of, in three tables   *)
(* that the code keeps apart:                                              *)
(*   Numbers   the field number of each case of UnmarshalVT;               *)
(*   Tags      the bytes MarshalToSizedBufferVT puts before each field;    *)
(*   TagSizes  the bytes SizeVT reserves for them.                         *)
(* Fields are written in ascending order of their numbers, what UnmarshalVT*)
(* did not know after them.  The code for one type of field is the same in *)
(* every message: it is in Codec.                                          *)
(***************************************************************************)

RegisterPluginRequestNumbers == [PluginName |-> 1, PluginIdx |-> 2]
RegisterPluginRequestTags == [PluginName |-> <<10>>, PluginIdx |-> <<18>>]
RegisterPluginRequestTagSizes == [PluginName |-> 1, PluginIdx |-> 1]

UpdateContainersRequestNumbers == [Update |-> 1, Evict |-> 2]
UpdateContainersRequestTags == [Update |-> <<10>>, Evict |-> <<18>>]
UpdateContainersRequestTagSizes == [Update |-> 1, Evict |-> 1]

UpdateContainersResponseNumbers == [Failed |-> 1]
UpdateContainersResponseTags == [Failed |-> <<10>>]
UpdateContainersResponseTagSizes == [Failed |-> 1]

LogRequestNumbers == [Msg |-> 1, Level |-> 2]
LogRequestTags == [Msg |-> <<10>>, Level |-> <<16>>]
LogRequestTagSizes == [Msg |-> 1, Level |-> 1]

ConfigureRequestNumbers == [Config |-> 1, RuntimeName |-> 2, RuntimeVersion |-> 3,
    RegistrationTimeout |-> 4, RequestTimeout |-> 5]
ConfigureRequestTags == [Config |-> <<10>>, RuntimeName |-> <<18>>, RuntimeVersion |-> <<26>>,
    RegistrationTimeout |-> <<32>>, RequestTimeout |-> <<40>>]
ConfigureRequestTagSizes == [Config |-> 1, RuntimeName |-> 1, RuntimeVersion |-> 1,
    RegistrationTimeout |-> 1, RequestTimeout |-> 1]

ConfigureResponseNumbers == [Events |-> 2]
ConfigureResponseTags == [Events |-> <<16>>]
ConfigureResponseTagSizes == [Events |-> 1]

SynchronizeRequestNumbers == [Pods |-> 1, Containers |-> 2, More |-> 3]
SynchronizeRequestTags == [Pods |-> <<10>>, Containers |-> <<18>>, More |-> <<24>>]
SynchronizeRequestTagSizes == [Pods |-> 1, Containers |-> 1, More |-> 1]

SynchronizeResponseNumbers == [Update |-> 1, More |-> 2]
SynchronizeResponseTags == [Update |-> <<10>>, More |-> <<16>>]
SynchronizeResponseTagSizes == [Update |-> 1, More |-> 1]

CreateContainerRequestNumbers == [Pod |-> 1, Container |-> 2]
CreateContainerRequestTags == [Pod |-> <<10>>, Container |-> <<18>>]
CreateContainerRequestTagSizes == [Pod |-> 1, Container |-> 1]

CreateContainerResponseNumbers == [Adjust |-> 1, Update |-> 2, Evict |-> 3]
CreateContainerResponseTags == [Adjust |-> <<10>>, Update |-> <<18>>, Evict |-> <<26>>]
CreateContainerResponseTagSizes == [Adjust |-> 1, Update |-> 1, Evict |-> 1]

UpdateContainerRequestNumbers == [Pod |-> 1, Container |-> 2, LinuxResources |-> 3]
UpdateContainerRequestTags == [Pod |-> <<10>>, Container |-> <<18>>, LinuxResources |-> <<26>>]
UpdateContainerRequestTagSizes == [Pod |-> 1, Container |-> 1, LinuxResources |-> 1]

UpdateContainerResponseNumbers == [Update |-> 1, Evict |-> 2]
UpdateContainerResponseTags == [Update |-> <<10>>, Evict |-> <<18>>]
UpdateContainerResponseTagSizes == [Update |-> 1, Evict |-> 1]

StopContainerRequestNumbers == [Pod |-> 1, Container |-> 2]
StopContainerRequestTags == [Pod |-> <<10>>, Container |-> <<18>>]
StopContainerRequestTagSizes == [Pod |-> 1, Container |-> 1]

StopContainerResponseNumbers == [Update |-> 1]
StopContainerResponseTags == [Update |-> <<10>>]
StopContainerResponseTagSizes == [Update |-> 1]

UpdatePodSandboxRequestNumbers == [Pod |-> 1, OverheadLinuxResources |-> 2,
    LinuxResources |-> 3]
UpdatePodSandboxRequestTags == [Pod |-> <<10>>, OverheadLinuxResources |-> <<18>>,
    LinuxResources |-> <<26>>]
UpdatePodSandboxRequestTagSizes == [Pod |-> 1, OverheadLinuxResources |-> 1,
    LinuxResources |-> 1]

UpdatePodSandboxResponseNumbers == <<>>
UpdatePodSandboxResponseTags == <<>>
UpdatePodSandboxResponseTagSizes == <<>>

StateChangeEventNumbers == [Event |-> 1, Pod |-> 2, Container |-> 3]
StateChangeEventTags == [Event |-> <<8>>, Pod |-> <<18>>, Container |-> <<26>>]
StateChangeEventTagSizes == [Event |-> 1, Pod |-> 1, Container |-> 1]

ValidateContainerAdjustmentRequestNumbers == [Pod |-> 1, Container |-> 2, Adjust |-> 3,
    Update |-> 4, Owners |-> 5, Plugins |-> 6]
ValidateContainerAdjustmentRequestTags == [Pod |-> <<10>>, Container |-> <<18>>,
    Adjust |-> <<26>>, Update |-> <<34>>, Owners |-> <<42>>, Plugins |-> <<50>>]
ValidateContainerAdjustmentRequestTagSizes == [Pod |-> 1, Container |-> 1, Adjust |-> 1,
    Update |-> 1, Owners |-> 1, Plugins |-> 1]

PluginInstanceNumbers == [Name |-> 1, Index |-> 2]
PluginInstanceTags == [Name |-> <<10>>, Index |-> <<18>>]
PluginInstanceTagSizes == [Name |-> 1, Index |-> 1]

ValidateContainerAdjustmentResponseNumbers == [Reject |-> 1, Reason |-> 2]
ValidateContainerAdjustmentResponseTags == [Reject |-> <<8>>, Reason |-> <<18>>]
ValidateContainerAdjustmentResponseTagSizes == [Reject |-> 1, Reason |-> 1]

EmptyNumbers == <<>>
EmptyTags == <<>>
EmptyTagSizes == <<>>

PodSandboxNumbers == [Id |-> 1, Name |-> 2, Uid |-> 3, Namespace |-> 4, Labels |-> 5,
    Annotations |-> 6, RuntimeHandler |-> 7, Linux |-> 8, Pid |-> 9, Ips |-> 10]
PodSandboxTags == [Id |-> <<10>>, Name |-> <<18>>, Uid |-> <<26>>, Namespace |-> <<34>>,
    Labels |-> <<42>>, Annotations |-> <<50>>, RuntimeHandler |-> <<58>>, Linux |-> <<66>>,
    Pid |-> <<72>>, Ips |-> <<82>>]
PodSandboxTagSizes == [Id |-> 1, Name |-> 1, Uid |-> 1, Namespace |-> 1, Labels |-> 1,
    Annotations |-> 1, RuntimeHandler |-> 1, Linux |-> 1, Pid |-> 1, Ips |-> 1]

LinuxPodSandboxNumbers == [PodOverhead |-> 1, PodResources |-> 2, CgroupParent |-> 3,
    CgroupsPath |-> 4, Namespaces |-> 5, Resources |-> 6]
LinuxPodSandboxTags == [PodOverhead |-> <<10>>, PodResources |-> <<18>>,
    CgroupParent |-> <<26>>, CgroupsPath |-> <<34>>, Namespaces |-> <<42>>,
    Resources |-> <<50>>]
LinuxPodSandboxTagSizes == [PodOverhead |-> 1, PodResources |-> 1, CgroupParent |-> 1,
    CgroupsPath |-> 1, Namespaces |-> 1, Resources |-> 1]

ContainerNumbers == [Id |-> 1, PodSandboxId |-> 2, Name |-> 3, State |-> 4, Labels |-> 5,
    Annotations |-> 6, Args |-> 7, Env |-> 8, Mounts |-> 9, Hooks |-> 10, Linux |-> 11,
    Pid |-> 12, Rlimits |-> 13, CreatedAt |-> 14, StartedAt |-> 15, FinishedAt |-> 16,
    ExitCode |-> 17, StatusReason |-> 18, StatusMessage |-> 19, CDIDevices |-> 20, User |-> 21]
ContainerTags == [Id |-> <<10>>, PodSandboxId |-> <<18>>, Name |-> <<26>>, State |-> <<32>>,
    Labels |-> <<42>>, Annotations |-> <<50>>, Args |-> <<58>>, Env |-> <<66>>,
    Mounts |-> <<74>>, Hooks |-> <<82>>, Linux |-> <<90>>, Pid |-> <<96>>, Rlimits |-> <<106>>,
    CreatedAt |-> <<112>>, StartedAt |-> <<120>>, FinishedAt |-> <<128, 1>>,
    ExitCode |-> <<136, 1>>, StatusReason |-> <<146, 1>>, StatusMessage |-> <<154, 1>>,
    CDIDevices |-> <<162, 1>>, User |-> <<170, 1>>]
ContainerTagSizes == [Id |-> 1, PodSandboxId |-> 1, Name |-> 1, State |-> 1, Labels |-> 1,
    Annotations |-> 1, Args |-> 1, Env |-> 1, Mounts |-> 1, Hooks |-> 1, Linux |-> 1, Pid |-> 1,
    Rlimits |-> 1, CreatedAt |-> 1, StartedAt |-> 1, FinishedAt |-> 2, ExitCode |-> 2,
    StatusReason |-> 2, StatusMessage |-> 2, CDIDevices |-> 2, User |-> 2]

MountNumbers == [Destination |-> 1, Type |-> 2, Source |-> 3, Options |-> 4]
MountTags == [Destination |-> <<10>>, Type |-> <<18>>, Source |-> <<26>>, Options |-> <<34>>]
MountTagSizes == [Destination |-> 1, Type |-> 1, Source |-> 1, Options |-> 1]

HooksNumbers == [Prestart |-> 1, CreateRuntime |-> 2, CreateContainer |-> 3,
    StartContainer |-> 4, Poststart |-> 5, Poststop |-> 6]
HooksTags == [Prestart |-> <<10>>, CreateRuntime |-> <<18>>, CreateContainer |-> <<26>>,
    StartContainer |-> <<34>>, Poststart |-> <<42>>, Poststop |-> <<50>>]
HooksTagSizes == [Prestart |-> 1, CreateRuntime |-> 1, CreateContainer |-> 1,
    StartContainer |-> 1, Poststart |-> 1, Poststop |-> 1]

HookNumbers == [Path |-> 1, Args |-> 2, Env |-> 3, Timeout |-> 4]
HookTags == [Path |-> <<10>>, Args |-> <<18>>, Env |-> <<26>>, Timeout |-> <<34>>]
HookTagSizes == [Path |-> 1, Args |-> 1, Env |-> 1, Timeout |-> 1]

LinuxContainerNumbers == [Namespaces |-> 1, Devices |-> 2, Resources |-> 3, OomScoreAdj |-> 4,
    CgroupsPath |-> 5, IoPriority |-> 6, SeccompProfile |-> 7, SeccompPolicy |-> 8,
    Sysctl |-> 9, NetDevices |-> 10, Scheduler |-> 11, Rdt |-> 12]
LinuxContainerTags == [Namespaces |-> <<10>>, Devices |-> <<18>>, Resources |-> <<26>>,
    OomScoreAdj |-> <<34>>, CgroupsPath |-> <<42>>, IoPriority |-> <<50>>,
    SeccompProfile |-> <<58>>, SeccompPolicy |-> <<66>>, Sysctl |-> <<74>>,
    NetDevices |-> <<82>>, Scheduler |-> <<90>>, Rdt |-> <<98>>]
LinuxContainerTagSizes == [Namespaces |-> 1, Devices |-> 1, Resources |-> 1, OomScoreAdj |-> 1,
    CgroupsPath |-> 1, IoPriority |-> 1, SeccompProfile |-> 1, SeccompPolicy |-> 1,
    Sysctl |-> 1, NetDevices |-> 1, Scheduler |-> 1, Rdt |-> 1]

LinuxNamespaceNumbers == [Type |-> 1, Path |-> 2]
LinuxNamespaceTags == [Type |-> <<10>>, Path |-> <<18>>]
LinuxNamespaceTagSizes == [Type |-> 1, Path |-> 1]

LinuxDeviceNumbers == [Path |-> 1, Type |-> 2, Major |-> 3, Minor |-> 4, FileMode |-> 5,
    Uid |-> 6, Gid |-> 7]
LinuxDeviceTags == [Path |-> <<10>>, Type |-> <<18>>, Major |-> <<24>>, Minor |-> <<32>>,
    FileMode |-> <<42>>, Uid |-> <<50>>, Gid |-> <<58>>]
LinuxDeviceTagSizes == [Path |-> 1, Type |-> 1, Major |-> 1, Minor |-> 1, FileMode |-> 1,
    Uid |-> 1, Gid |-> 1]

LinuxDeviceCgroupNumbers == [Allow |-> 1, Type |-> 2, Major |-> 3, Minor |-> 4, Access |-> 5]
LinuxDeviceCgroupTags == [Allow |-> <<8>>, Type |-> <<18>>, Major |-> <<26>>, Minor |-> <<34>>,
    Access |-> <<42>>]
LinuxDeviceCgroupTagSizes == [Allow |-> 1, Type |-> 1, Major |-> 1, Minor |-> 1, Access |-> 1]

CDIDeviceNumbers == [Name |-> 1]
CDIDeviceTags == [Name |-> <<10>>]
CDIDeviceTagSizes == [Name |-> 1]

UserNumbers == [Uid |-> 1, Gid |-> 2, AdditionalGids |-> 3]
UserTags == [Uid |-> <<8>>, Gid |-> <<16>>, AdditionalGids |-> <<26>>]
UserTagSizes == [Uid |-> 1, Gid |-> 1, AdditionalGids |-> 1]

LinuxResourcesNumbers == [Memory |-> 1, Cpu |-> 2, HugepageLimits |-> 3, BlockioClass |-> 4,
    RdtClass |-> 5, Unified |-> 6, Devices |-> 7, Pids |-> 8]
LinuxResourcesTags == [Memory |-> <<10>>, Cpu |-> <<18>>, HugepageLimits |-> <<26>>,
    BlockioClass |-> <<34>>, RdtClass |-> <<42>>, Unified |-> <<50>>, Devices |-> <<58>>,
    Pids |-> <<66>>]
LinuxResourcesTagSizes == [Memory |-> 1, Cpu |-> 1, HugepageLimits |-> 1, BlockioClass |-> 1,
    RdtClass |-> 1, Unified |-> 1, Devices |-> 1, Pids |-> 1]

LinuxMemoryNumbers == [Limit |-> 1, Reservation |-> 2, Swap |-> 3, Kernel |-> 4,
    KernelTcp |-> 5, Swappiness |-> 6, DisableOomKiller |-> 7, UseHierarchy |-> 8]
LinuxMemoryTags == [Limit |-> <<10>>, Reservation |-> <<18>>, Swap |-> <<26>>,
    Kernel |-> <<34>>, KernelTcp |-> <<42>>, Swappiness |-> <<50>>, DisableOomKiller |-> <<58>>,
    UseHierarchy |-> <<66>>]
LinuxMemoryTagSizes == [Limit |-> 1, Reservation |-> 1, Swap |-> 1, Kernel |-> 1,
    KernelTcp |-> 1, Swappiness |-> 1, DisableOomKiller |-> 1, UseHierarchy |-> 1]

LinuxCPUNumbers == [Shares |-> 1, Quota |-> 2, Period |-> 3, RealtimeRuntime |-> 4,
    RealtimePeriod |-> 5, Cpus |-> 6, Mems |-> 7]
LinuxCPUTags == [Shares |-> <<10>>, Quota |-> <<18>>, Period |-> <<26>>,
    RealtimeRuntime |-> <<34>>, RealtimePeriod |-> <<42>>, Cpus |-> <<50>>, Mems |-> <<58>>]
LinuxCPUTagSizes == [Shares |-> 1, Quota |-> 1, Period |-> 1, RealtimeRuntime |-> 1,
    RealtimePeriod |-> 1, Cpus |-> 1, Mems |-> 1]

HugepageLimitNumbers == [PageSize |-> 1, Limit |-> 2]
HugepageLimitTags == [PageSize |-> <<10>>, Limit |-> <<16>>]
HugepageLimitTagSizes == [PageSize |-> 1, Limit |-> 1]

SecurityProfileNumbers == [ProfileType |-> 1, LocalhostRef |-> 2]
SecurityProfileTags == [ProfileType |-> <<8>>, LocalhostRef |-> <<18>>]
SecurityProfileTagSizes == [ProfileType |-> 1, LocalhostRef |-> 1]

POSIXRlimitNumbers == [Type |-> 1, Hard |-> 2, Soft |-> 3]
POSIXRlimitTags == [Type |-> <<10>>, Hard |-> <<16>>, Soft |-> <<24>>]
POSIXRlimitTagSizes == [Type |-> 1, Hard |-> 1, Soft |-> 1]

LinuxPidsNumbers == [Limit |-> 1]
LinuxPidsTags == [Limit |-> <<8>>]
LinuxPidsTagSizes == [Limit |-> 1]

LinuxIOPriorityNumbers == [Class |-> 1, Priority |-> 2]
LinuxIOPriorityTags == [Class |-> <<8>>, Priority |-> <<16>>]
LinuxIOPriorityTagSizes == [Class |-> 1, Priority |-> 1]

LinuxNetDeviceNumbers == [Name |-> 1]
LinuxNetDeviceTags == [Name |-> <<10>>]
LinuxNetDeviceTagSizes == [Name |-> 1]

LinuxSchedulerNumbers == [Policy |-> 1, Nice |-> 2, Priority |-> 3, Flags |-> 4, Runtime |-> 5,
    Deadline |-> 6, Period |-> 7]
LinuxSchedulerTags == [Policy |-> <<8>>, Nice |-> <<16>>, Priority |-> <<24>>, Flags |-> <<34>>,
    Runtime |-> <<40>>, Deadline |-> <<48>>, Period |-> <<56>>]
LinuxSchedulerTagSizes == [Policy |-> 1, Nice |-> 1, Priority |-> 1, Flags |-> 1, Runtime |-> 1,
    Deadline |-> 1, Period |-> 1]

ContainerAdjustmentNumbers == [Annotations |-> 2, Mounts |-> 3, Env |-> 4, Hooks |-> 5,
    Linux |-> 6, Rlimits |-> 7, CDIDevices |-> 8, Args |-> 9]
ContainerAdjustmentTags == [Annotations |-> <<18>>, Mounts |-> <<26>>, Env |-> <<34>>,
    Hooks |-> <<42>>, Linux |-> <<50>>, Rlimits |-> <<58>>, CDIDevices |-> <<66>>,
    Args |-> <<74>>]
ContainerAdjustmentTagSizes == [Annotations |-> 1, Mounts |-> 1, Env |-> 1, Hooks |-> 1,
    Linux |-> 1, Rlimits |-> 1, CDIDevices |-> 1, Args |-> 1]

LinuxContainerAdjustmentNumbers == [Devices |-> 1, Resources |-> 2, CgroupsPath |-> 3,
    OomScoreAdj |-> 4, IoPriority |-> 5, SeccompPolicy |-> 6, Namespaces |-> 7, Sysctl |-> 8,
    NetDevices |-> 9, Scheduler |-> 10, Rdt |-> 11]
LinuxContainerAdjustmentTags == [Devices |-> <<10>>, Resources |-> <<18>>,
    CgroupsPath |-> <<26>>, OomScoreAdj |-> <<34>>, IoPriority |-> <<42>>,
    SeccompPolicy |-> <<50>>, Namespaces |-> <<58>>, Sysctl |-> <<66>>, NetDevices |-> <<74>>,
    Scheduler |-> <<82>>, Rdt |-> <<90>>]
LinuxContainerAdjustmentTagSizes == [Devices |-> 1, Resources |-> 1, CgroupsPath |-> 1,
    OomScoreAdj |-> 1, IoPriority |-> 1, SeccompPolicy |-> 1, Namespaces |-> 1, Sysctl |-> 1,
    NetDevices |-> 1, Scheduler |-> 1, Rdt |-> 1]

LinuxSeccompNumbers == [DefaultAction |-> 1, DefaultErrno |-> 2, Architectures |-> 3,
    Flags |-> 4, ListenerPath |-> 5, ListenerMetadata |-> 6, Syscalls |-> 7]
LinuxSeccompTags == [DefaultAction |-> <<10>>, DefaultErrno |-> <<18>>,
    Architectures |-> <<26>>, Flags |-> <<34>>, ListenerPath |-> <<42>>,
    ListenerMetadata |-> <<50>>, Syscalls |-> <<58>>]
LinuxSeccompTagSizes == [DefaultAction |-> 1, DefaultErrno |-> 1, Architectures |-> 1,
    Flags |-> 1, ListenerPath |-> 1, ListenerMetadata |-> 1, Syscalls |-> 1]

LinuxSyscallNumbers == [Names |-> 1, Action |-> 2, ErrnoRet |-> 3, Args |-> 4]
LinuxSyscallTags == [Names |-> <<10>>, Action |-> <<18>>, ErrnoRet |-> <<26>>, Args |-> <<34>>]
LinuxSyscallTagSizes == [Names |-> 1, Action |-> 1, ErrnoRet |-> 1, Args |-> 1]

LinuxSeccompArgNumbers == [Index |-> 1, Value |-> 2, ValueTwo |-> 3, Op |-> 4]
LinuxSeccompArgTags == [Index |-> <<8>>, Value |-> <<16>>, ValueTwo |-> <<24>>, Op |-> <<34>>]
LinuxSeccompArgTagSizes == [Index |-> 1, Value |-> 1, ValueTwo |-> 1, Op |-> 1]

ContainerUpdateNumbers == [ContainerId |-> 1, Linux |-> 2, IgnoreFailure |-> 3]
ContainerUpdateTags == [ContainerId |-> <<10>>, Linux |-> <<18>>, IgnoreFailure |-> <<24>>]
ContainerUpdateTagSizes == [ContainerId |-> 1, Linux |-> 1, IgnoreFailure |-> 1]

LinuxContainerUpdateNumbers == [Resources |-> 1]
LinuxContainerUpdateTags == [Resources |-> <<10>>]
LinuxContainerUpdateTagSizes == [Resources |-> 1]

ContainerEvictionNumbers == [ContainerId |-> 1, Reason |-> 2]
ContainerEvictionTags == [ContainerId |-> <<10>>, Reason |-> <<18>>]
ContainerEvictionTagSizes == [ContainerId |-> 1, Reason |-> 1]

LinuxRdtNumbers == [ClosId |-> 1, Schemata |-> 2, EnableMonitoring |-> 3, Remove |-> 4]
LinuxRdtTags == [ClosId |-> <<10>>, Schemata |-> <<18>>, EnableMonitoring |-> <<26>>,
    Remove |-> <<32>>]
LinuxRdtTagSizes == [ClosId |-> 1, Schemata |-> 1, EnableMonitoring |-> 1, Remove |-> 1]

KeyValueNumbers == [Key |-> 1, Value |-> 2]
KeyValueTags == [Key |-> <<10>>, Value |-> <<18>>]
KeyValueTagSizes == [Key |-> 1, Value |-> 1]

OptionalStringNumbers == [Value |-> 1]
OptionalStringTags == [Value |-> <<10>>]
OptionalStringTagSizes == [Value |-> 1]

OptionalRepeatedStringNumbers == [Value |-> 1]
OptionalRepeatedStringTags == [Value |-> <<10>>]
OptionalRepeatedStringTagSizes == [Value |-> 1]

OptionalIntNumbers == [Value |-> 1]
OptionalIntTags == [Value |-> <<8>>]
OptionalIntTagSizes == [Value |-> 1]

OptionalInt32Numbers == [Value |-> 1]
OptionalInt32Tags == [Value |-> <<8>>]
OptionalInt32TagSizes == [Value |-> 1]

OptionalUInt32Numbers == [Value |-> 1]
OptionalUInt32Tags == [Value |-> <<8>>]
OptionalUInt32TagSizes == [Value |-> 1]

OptionalInt64Numbers == [Value |-> 1]
OptionalInt64Tags == [Value |-> <<8>>]
OptionalInt64TagSizes == [Value |-> 1]

OptionalUInt64Numbers == [Value |-> 1]
OptionalUInt64Tags == [Value |-> <<8>>]
OptionalUInt64TagSizes == [Value |-> 1]

OptionalBoolNumbers == [Value |-> 1]
OptionalBoolTags == [Value |-> <<8>>]
OptionalBoolTagSizes == [Value |-> 1]

OptionalFileModeNumbers == [Value |-> 1]
OptionalFileModeTags == [Value |-> <<8>>]
OptionalFileModeTagSizes == [Value |-> 1]

CompoundFieldOwnersNumbers == [Owners |-> 1]
CompoundFieldOwnersTags == [Owners |-> <<10>>]
CompoundFieldOwnersTagSizes == [Owners |-> 1]

FieldOwnersNumbers == [Simple |-> 1, Compound |-> 2]
FieldOwnersTags == [Simple |-> <<10>>, Compound |-> <<18>>]
FieldOwnersTagSizes == [Simple |-> 1, Compound |-> 1]

OwningPluginsNumbers == [Owners |-> 1]
OwningPluginsTags == [Owners |-> <<10>>]
OwningPluginsTagSizes == [Owners |-> 1]

\* By message: what UnmarshalVT reads.
Numbers == [RegisterPluginRequest |-> RegisterPluginRequestNumbers,
    UpdateContainersRequest |-> UpdateContainersRequestNumbers,
    UpdateContainersResponse |-> UpdateContainersResponseNumbers,
    LogRequest |-> LogRequestNumbers, ConfigureRequest |-> ConfigureRequestNumbers,
    ConfigureResponse |-> ConfigureResponseNumbers,
    SynchronizeRequest |-> SynchronizeRequestNumbers,
    SynchronizeResponse |-> SynchronizeResponseNumbers,
    CreateContainerRequest |-> CreateContainerRequestNumbers,
    CreateContainerResponse |-> CreateContainerResponseNumbers,
    UpdateContainerRequest |-> UpdateContainerRequestNumbers,
    UpdateContainerResponse |-> UpdateContainerResponseNumbers,
    StopContainerRequest |-> StopContainerRequestNumbers,
    StopContainerResponse |-> StopContainerResponseNumbers,
    UpdatePodSandboxRequest |-> UpdatePodSandboxRequestNumbers,
    UpdatePodSandboxResponse |-> UpdatePodSandboxResponseNumbers,
    StateChangeEvent |-> StateChangeEventNumbers,
    ValidateContainerAdjustmentRequest |-> ValidateContainerAdjustmentRequestNumbers,
    PluginInstance |-> PluginInstanceNumbers,
    ValidateContainerAdjustmentResponse |-> ValidateContainerAdjustmentResponseNumbers,
    Empty |-> EmptyNumbers, PodSandbox |-> PodSandboxNumbers,
    LinuxPodSandbox |-> LinuxPodSandboxNumbers, Container |-> ContainerNumbers,
    Mount |-> MountNumbers, Hooks |-> HooksNumbers, Hook |-> HookNumbers,
    LinuxContainer |-> LinuxContainerNumbers, LinuxNamespace |-> LinuxNamespaceNumbers,
    LinuxDevice |-> LinuxDeviceNumbers, LinuxDeviceCgroup |-> LinuxDeviceCgroupNumbers,
    CDIDevice |-> CDIDeviceNumbers, User |-> UserNumbers,
    LinuxResources |-> LinuxResourcesNumbers, LinuxMemory |-> LinuxMemoryNumbers,
    LinuxCPU |-> LinuxCPUNumbers, HugepageLimit |-> HugepageLimitNumbers,
    SecurityProfile |-> SecurityProfileNumbers, POSIXRlimit |-> POSIXRlimitNumbers,
    LinuxPids |-> LinuxPidsNumbers, LinuxIOPriority |-> LinuxIOPriorityNumbers,
    LinuxNetDevice |-> LinuxNetDeviceNumbers, LinuxScheduler |-> LinuxSchedulerNumbers,
    ContainerAdjustment |-> ContainerAdjustmentNumbers,
    LinuxContainerAdjustment |-> LinuxContainerAdjustmentNumbers,
    LinuxSeccomp |-> LinuxSeccompNumbers, LinuxSyscall |-> LinuxSyscallNumbers,
    LinuxSeccompArg |-> LinuxSeccompArgNumbers, ContainerUpdate |-> ContainerUpdateNumbers,
    LinuxContainerUpdate |-> LinuxContainerUpdateNumbers,
    ContainerEviction |-> ContainerEvictionNumbers, LinuxRdt |-> LinuxRdtNumbers,
    KeyValue |-> KeyValueNumbers, OptionalString |-> OptionalStringNumbers,
    OptionalRepeatedString |-> OptionalRepeatedStringNumbers,
    OptionalInt |-> OptionalIntNumbers, OptionalInt32 |-> OptionalInt32Numbers,
    OptionalUInt32 |-> OptionalUInt32Numbers, OptionalInt64 |-> OptionalInt64Numbers,
    OptionalUInt64 |-> OptionalUInt64Numbers, OptionalBool |-> OptionalBoolNumbers,
    OptionalFileMode |-> OptionalFileModeNumbers,
    CompoundFieldOwners |-> CompoundFieldOwnersNumbers, FieldOwners |-> FieldOwnersNumbers,
    OwningPlugins |-> OwningPluginsNumbers]

\* By message: what MarshalToSizedBufferVT writes.
Tags == [RegisterPluginRequest |-> RegisterPluginRequestTags,
    UpdateContainersRequest |-> UpdateContainersRequestTags,
    UpdateContainersResponse |-> UpdateContainersResponseTags, LogRequest |-> LogRequestTags,
    ConfigureRequest |-> ConfigureRequestTags, ConfigureResponse |-> ConfigureResponseTags,
    SynchronizeRequest |-> SynchronizeRequestTags,
    SynchronizeResponse |-> SynchronizeResponseTags,
    CreateContainerRequest |-> CreateContainerRequestTags,
    CreateContainerResponse |-> CreateContainerResponseTags,
    UpdateContainerRequest |-> UpdateContainerRequestTags,
    UpdateContainerResponse |-> UpdateContainerResponseTags,
    StopContainerRequest |-> StopContainerRequestTags,
    StopContainerResponse |-> StopContainerResponseTags,
    UpdatePodSandboxRequest |-> UpdatePodSandboxRequestTags,
    UpdatePodSandboxResponse |-> UpdatePodSandboxResponseTags,
    StateChangeEvent |-> StateChangeEventTags,
    ValidateContainerAdjustmentRequest |-> ValidateContainerAdjustmentRequestTags,
    PluginInstance |-> PluginInstanceTags,
    ValidateContainerAdjustmentResponse |-> ValidateContainerAdjustmentResponseTags,
    Empty |-> EmptyTags, PodSandbox |-> PodSandboxTags, LinuxPodSandbox |-> LinuxPodSandboxTags,
    Container |-> ContainerTags, Mount |-> MountTags, Hooks |-> HooksTags, Hook |-> HookTags,
    LinuxContainer |-> LinuxContainerTags, LinuxNamespace |-> LinuxNamespaceTags,
    LinuxDevice |-> LinuxDeviceTags, LinuxDeviceCgroup |-> LinuxDeviceCgroupTags,
    CDIDevice |-> CDIDeviceTags, User |-> UserTags, LinuxResources |-> LinuxResourcesTags,
    LinuxMemory |-> LinuxMemoryTags, LinuxCPU |-> LinuxCPUTags,
    HugepageLimit |-> HugepageLimitTags, SecurityProfile |-> SecurityProfileTags,
    POSIXRlimit |-> POSIXRlimitTags, LinuxPids |-> LinuxPidsTags,
    LinuxIOPriority |-> LinuxIOPriorityTags, LinuxNetDevice |-> LinuxNetDeviceTags,
    LinuxScheduler |-> LinuxSchedulerTags, ContainerAdjustment |-> ContainerAdjustmentTags,
    LinuxContainerAdjustment |-> LinuxContainerAdjustmentTags,
    LinuxSeccomp |-> LinuxSeccompTags, LinuxSyscall |-> LinuxSyscallTags,
    LinuxSeccompArg |-> LinuxSeccompArgTags, ContainerUpdate |-> ContainerUpdateTags,
    LinuxContainerUpdate |-> LinuxContainerUpdateTags,
    ContainerEviction |-> ContainerEvictionTags, LinuxRdt |-> LinuxRdtTags,
    KeyValue |-> KeyValueTags, OptionalString |-> OptionalStringTags,
    OptionalRepeatedString |-> OptionalRepeatedStringTags, OptionalInt |-> OptionalIntTags,
    OptionalInt32 |-> OptionalInt32Tags, OptionalUInt32 |-> OptionalUInt32Tags,
    OptionalInt64 |-> OptionalInt64Tags, OptionalUInt64 |-> OptionalUInt64Tags,
    OptionalBool |-> OptionalBoolTags, OptionalFileMode |-> OptionalFileModeTags,
    CompoundFieldOwners |-> CompoundFieldOwnersTags, FieldOwners |-> FieldOwnersTags,
    OwningPlugins |-> OwningPluginsTags]

\* By message: what SizeVT reserves.
TagSizes == [RegisterPluginRequest |-> RegisterPluginRequestTagSizes,
    UpdateContainersRequest |-> UpdateContainersRequestTagSizes,
    UpdateContainersResponse |-> UpdateContainersResponseTagSizes,
    LogRequest |-> LogRequestTagSizes, ConfigureRequest |-> ConfigureRequestTagSizes,
    ConfigureResponse |-> ConfigureResponseTagSizes,
    SynchronizeRequest |-> SynchronizeRequestTagSizes,
    SynchronizeResponse |-> SynchronizeResponseTagSizes,
    CreateContainerRequest |-> CreateContainerRequestTagSizes,
    CreateContainerResponse |-> CreateContainerResponseTagSizes,
    UpdateContainerRequest |-> UpdateContainerRequestTagSizes,
    UpdateContainerResponse |-> UpdateContainerResponseTagSizes,
    StopContainerRequest |-> StopContainerRequestTagSizes,
    StopContainerResponse |-> StopContainerResponseTagSizes,
    UpdatePodSandboxRequest |-> UpdatePodSandboxRequestTagSizes,
    UpdatePodSandboxResponse |-> UpdatePodSandboxResponseTagSizes,
    StateChangeEvent |-> StateChangeEventTagSizes,
    ValidateContainerAdjustmentRequest |-> ValidateContainerAdjustmentRequestTagSizes,
    PluginInstance |-> PluginInstanceTagSizes,
    ValidateContainerAdjustmentResponse |-> ValidateContainerAdjustmentResponseTagSizes,
    Empty |-> EmptyTagSizes, PodSandbox |-> PodSandboxTagSizes,
    LinuxPodSandbox |-> LinuxPodSandboxTagSizes, Container |-> ContainerTagSizes,
    Mount |-> MountTagSizes, Hooks |-> HooksTagSizes, Hook |-> HookTagSizes,
    LinuxContainer |-> LinuxContainerTagSizes, LinuxNamespace |-> LinuxNamespaceTagSizes,
    LinuxDevice |-> LinuxDeviceTagSizes, LinuxDeviceCgroup |-> LinuxDeviceCgroupTagSizes,
    CDIDevice |-> CDIDeviceTagSizes, User |-> UserTagSizes,
    LinuxResources |-> LinuxResourcesTagSizes, LinuxMemory |-> LinuxMemoryTagSizes,
    LinuxCPU |-> LinuxCPUTagSizes, HugepageLimit |-> HugepageLimitTagSizes,
    SecurityProfile |-> SecurityProfileTagSizes, POSIXRlimit |-> POSIXRlimitTagSizes,
    LinuxPids |-> LinuxPidsTagSizes, LinuxIOPriority |-> LinuxIOPriorityTagSizes,
    LinuxNetDevice |-> LinuxNetDeviceTagSizes, LinuxScheduler |-> LinuxSchedulerTagSizes,
    ContainerAdjustment |-> ContainerAdjustmentTagSizes,
    LinuxContainerAdjustment |-> LinuxContainerAdjustmentTagSizes,
    LinuxSeccomp |-> LinuxSeccompTagSizes, LinuxSyscall |-> LinuxSyscallTagSizes,
    LinuxSeccompArg |-> LinuxSeccompArgTagSizes, ContainerUpdate |-> ContainerUpdateTagSizes,
    LinuxContainerUpdate |-> LinuxContainerUpdateTagSizes,
    ContainerEviction |-> ContainerEvictionTagSizes, LinuxRdt |-> LinuxRdtTagSizes,
    KeyValue |-> KeyValueTagSizes, OptionalString |-> OptionalStringTagSizes,
    OptionalRepeatedString |-> OptionalRepeatedStringTagSizes,
    OptionalInt |-> OptionalIntTagSizes, OptionalInt32 |-> OptionalInt32TagSizes,
    OptionalUInt32 |-> OptionalUInt32TagSizes, OptionalInt64 |-> OptionalInt64TagSizes,
    OptionalUInt64 |-> OptionalUInt64TagSizes, OptionalBool |-> OptionalBoolTagSizes,
    OptionalFileMode |-> OptionalFileModeTagSizes,
    CompoundFieldOwners |-> CompoundFieldOwnersTagSizes, FieldOwners |-> FieldOwnersTagSizes,
    OwningPlugins |-> OwningPluginsTagSizes]
=============================================================================
