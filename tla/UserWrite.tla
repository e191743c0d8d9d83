------------------------------- MODULE UserWrite ------------------------------
(***************************************************************************)
(* The write system call: syscall_entry_rust decodes the registers, the    *)
(* dispatcher checks the request, and sys_write_with_memory copies the     *)
(* user's slice to the serial port in chunks.  Each chunk is validated     *)
(* page by page, copied through the direct map of physical memory into a   *)
(* buffer, and emitted before the next one is looked at.  exit and yield   *)
(* with a system runtime are in SystemRuntime.                             *)
(*                                                                         *)
(* A byte of memory is known by its physical address.                      *)
(***************************************************************************)
EXTENDS Integers, Sequences, FiniteSetsExt

CONSTANTS
    PageSize,               \* PAGE_SIZE_4K
    ChunkSize,              \* the length of the buffer of sys_write_with_memory
    UserStart, KernelStart, \* USER_SPACE_START, KERNEL_SPACE_START
    AddressEnd,             \* one more than u64::MAX
    PhysicalOffset,         \* where physical memory is mapped
    AddressSpaces,          \* the page tables a process may have
    None

ASSUME WriteAssumption ==
    /\ PageSize \in Nat \ {0} /\ ChunkSize \in Nat \ {0}
    /\ UserStart % PageSize = 0 /\ KernelStart % PageSize = 0
    /\ 0 < UserStart /\ UserStart < KernelStart /\ KernelStart < AddressEnd
    /\ KernelStart - UserStart < AddressEnd - 6

VARIABLES
    pages,      \* the page table: [frame, user] of each mapped page
    mapping,    \* has PhysicalMemoryMapping::install_global been called?
    call,       \* the write under way, or None
    serial,     \* what the system call has emitted
    last        \* the request that ended, how, and RAX, until userspace goes on

vars == <<pages, mapping, call, serial, last>>

Address == 0 .. AddressEnd - 1
Page == 0 .. (AddressEnd \div PageSize) - 1
PageOf(address) == address \div PageSize
Fits(sum) == sum < AddressEnd
UserRange == UserStart .. KernelStart - 1

(***************************************************************************)
(* The ABI.                                                                *)
(***************************************************************************)

SyscallError == 1 .. 6
UnknownSyscall == 1
NotImplemented == 2
InvalidArguments == 3
InvalidUserRange == 4
InvalidUserMemory == 5

ReturnValue(error) == (AddressEnd - error) % AddressEnd
FromReturnValue(value) ==
    LET code == (AddressEnd - value) % AddressEnd
    IN  IF code \in SyscallError THEN code ELSE None

(***************************************************************************)
(* The address space.                                                      *)
(***************************************************************************)

SliceOk(ptr, len) ==
    \/ len = 0
    \/ /\ ptr # 0
       /\ Fits(ptr + len)
       /\ ptr >= UserStart /\ ptr + len <= KernelStart

\* X86ActiveUserMemory: the walk fails outside the user range.
Translate(address) ==
    IF address \in UserRange /\ pages[PageOf(address)] # None
    THEN pages[PageOf(address)].frame * PageSize + (address % PageSize)
    ELSE None
PageReadable(page) ==
    page * PageSize \in UserRange /\ pages[page] # None /\ pages[page].user

\* The pages validate_readable_range asks about.
PagesChecked(ptr, len) == PageOf(ptr) .. PageOf(ptr + len - 1)
RangeReadable(ptr, len) ==
    SliceOk(ptr, len) /\ \A page \in PagesChecked(ptr, len) : PageReadable(page)

\* X86UserCopyBackend translates the first address of each piece of the chunk
\* that lies in one page, and copies the piece from there.
PieceStart_Contiguous(src, address) == src   \* mutant: frames taken to be contiguous
PieceStart(src, address) == Max({src, PageOf(address) * PageSize})
CopyOk(src, len) ==
    \A address \in src .. src + len - 1 :
        LET from == Translate(PieceStart(src, address))
        IN  from # None /\ Fits(PhysicalOffset + from)
CopyFromUser(src, len) ==
    [k \in 1 .. len |->
        LET address == src + k - 1
            piece == PieceStart(src, address)
        IN  Translate(piece) + (address - piece)]

(***************************************************************************)
(* The handler.                                                            *)
(***************************************************************************)

Init ==
    /\ pages \in AddressSpaces
    /\ mapping \in BOOLEAN
    /\ call = None
    /\ serial = <<>>
    /\ last = None

\* The process runs; it has taken the result of its last system call.
InUserspace == call = None /\ last = None
iretq ==
    /\ last # None
    /\ last' = None
    /\ serial' = <<>>
    /\ UNCHANGED <<pages, mapping, call>>

Finished(request, error, rax) == [request |-> request, error |-> error, rax |-> rax]

\* A system call that ends in an error.
Refuse(request, error) ==
    /\ last' = Finished(request, error, ReturnValue(error))
    /\ call' = None
    /\ UNCHANGED <<pages, mapping, serial>>

\* A trap from kernel mode is ignored.
trap_from_kernel ==
    /\ InUserspace
    /\ UNCHANGED vars

syscall_without_mapping(request) ==
    /\ InUserspace
    /\ ~ mapping
    /\ Refuse(request, NotImplemented)

syscall_unknown(request) ==
    /\ InUserspace
    /\ mapping
    /\ request.number \notin {"Write", "Exit", "Yield"}
    /\ Refuse(request, UnknownSyscall)

\* exit and yield without a system runtime.
syscall_control(request) ==
    /\ InUserspace
    /\ mapping
    /\ request.number \in {"Exit", "Yield"}
    /\ Refuse(request, NotImplemented)

\* sys_write_with_memory up to its loop.
sys_write(request) ==
    /\ InUserspace
    /\ mapping
    /\ request.number = "Write"
    /\ CASE request.arg2 # 0 -> Refuse(request, InvalidArguments)
         [] request.arg2 = 0 /\ ~ SliceOk(request.ptr, request.len) ->
                Refuse(request, InvalidUserRange)
         [] request.arg2 = 0 /\ SliceOk(request.ptr, request.len) /\ request.len = 0 ->
                /\ last' = Finished(request, None, 0)
                /\ UNCHANGED <<pages, mapping, call, serial>>
         [] OTHER ->
                /\ call' = [ request |-> request, offset |-> 0,
                             buffer |-> [k \in 1 .. ChunkSize |-> None] ]
                /\ UNCHANGED <<pages, mapping, serial, last>>

\* What sink.write gets of the buffer.
Emitted(buffer, chunk_len) == SubSeq(buffer, 1, chunk_len)

ChunkLen(remaining) == Min({remaining, ChunkSize})

\* One iteration of the loop; after the last one the call returns its length.
write_chunk ==
    /\ call # None
    /\ LET request == call.request
           chunk_len == ChunkLen(request.len - call.offset)
           chunk_ptr == request.ptr + call.offset
           buffer == [k \in DOMAIN call.buffer \cup 1 .. chunk_len |->
                        IF k <= chunk_len THEN CopyFromUser(chunk_ptr, chunk_len)[k] ELSE call.buffer[k]]
           offset == call.offset + chunk_len
       IN  IF ~ (RangeReadable(chunk_ptr, chunk_len) /\ CopyOk(chunk_ptr, chunk_len))
           THEN Refuse(request, InvalidUserMemory)
           ELSE /\ serial' = serial \o Emitted(buffer, chunk_len)
                /\ IF offset < request.len
                   THEN /\ call' = [call EXCEPT !.offset = offset, !.buffer = buffer]
                        /\ UNCHANGED last
                   ELSE /\ call' = None
                        /\ last' = Finished(request, None, request.len)
                /\ UNCHANGED <<pages, mapping>>

Request ==
    [number : {"Write"}, ptr : Address, len : Address, arg2 : {0, 1}]
    \cup [number : {"Exit", "Yield", "Other"}, ptr : {0}, len : {0}, arg2 : {0}]

Next ==
    \/ trap_from_kernel
    \/ iretq
    \/ \E request \in Request :
        \/ syscall_without_mapping(request)
        \/ syscall_unknown(request)
        \/ syscall_control(request)
        \/ sys_write(request)
    \/ write_chunk

Spec == Init /\ [][Next]_vars

(***************************************************************************)
(* Properties.                                                             *)
(***************************************************************************)

\* The byte the process itself reads at an address, and the addresses it may
\* read: the reference the chunks, pieces and pages are compared with.
Sees(address) == pages[PageOf(address)].frame * PageSize + (address % PageSize)
MayRead(address) ==
    /\ address \in UserRange
    /\ pages[PageOf(address)] # None /\ pages[PageOf(address)].user
Slice(request) == request.ptr .. request.ptr + request.len - 1

\* What has been emitted, at any time and however the call ends, is a prefix
\* of the user's slice as the process sees it, byte by byte and over the ends
\* of chunks and of pages whose frames are not adjacent; and no byte the
\* process may not read is ever emitted.
EmittedIsPrefix ==
    LET request == IF call # None THEN call.request ELSE last.request
    IN  serial # <<>> =>
            /\ Len(serial) <= request.len
            /\ \A k \in DOMAIN serial :
                MayRead(request.ptr + k - 1) /\ serial[k] = Sees(request.ptr + k - 1)

===============================================================================
