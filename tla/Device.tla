------------------------------- MODULE Device -------------------------------
(***************************************************************************)
(* The life of a device (runtime/src/hal): hexir_device_create opens the   *)
(* one the caller names, on CUDA by loading libcuda once per process and   *)
(* then going through the driver, and its buffers must be gone before it   *)
(* is released.  Every step may fail.  The program around it composes      *)
(* these actions with its own.                                             *)
(***************************************************************************)
EXTENDS Naturals

VARIABLES
  library,     (* cu.loaded and cu.lib: unopened, open or failed           *)
  creating,    (* the next step of hexir_device_create, or idle            *)
  status,      (* what the last call returned                              *)
  device,      (* the parts of the device that exist                       *)
  buffers      (* its buffers that exist                                   *)

deviceVars == <<library, creating, status, device, buffers>>

DeviceErrors == {"DEVICE", "OUT_OF_MEMORY"}

(* hexir_device_t, cuda_device_impl_t and the driver's context. *)
CpuDevice  == {"device"}
CudaDevice == {"device", "impl", "context"}
DeviceOf(kind) == IF kind = "cpu" THEN CpuDevice ELSE CudaDevice

Created(parts) == creating' = "idle" /\ status' = "OK" /\ device' = parts
Refused(error) == creating' = "idle" /\ status' = error

-----------------------------------------------------------------------------
BeginCreate(kind) ==
  /\ creating = "idle"
  /\ creating' = IF kind = "cpu" THEN "cpu" ELSE "load"
  /\ UNCHANGED <<library, status, device, buffers>>

CreateCpu ==
  /\ creating = "cpu"
  /\ \/ Created(CpuDevice)
     \/ Refused("OUT_OF_MEMORY") /\ UNCHANGED device
  /\ UNCHANGED <<library, buffers>>

(* Mutant: every device loads the library anew. *)
LoadLibraryAgain ==
  /\ creating = "load"
  /\ \/ library' = "open" /\ creating' = "init" /\ UNCHANGED status
     \/ library' = "failed" /\ Refused("DEVICE")
  /\ UNCHANGED <<device, buffers>>

(* cuda_load: the first call decides for the whole process.  A library that
   misses a symbol is closed again and counts as not there. *)
LoadLibrary ==
  /\ creating = "load"
  /\ \/ library # "failed" /\ library' = "open" /\ creating' = "init" /\ UNCHANGED status
     \/ library # "open" /\ library' = "failed" /\ Refused("DEVICE")
  /\ UNCHANGED <<device, buffers>>

Initialise ==
  /\ creating = "init"
  /\ \/ creating' = "objects" /\ UNCHANGED status
     \/ Refused("DEVICE")
  /\ UNCHANGED <<library, device, buffers>>

(* Two callocs; what one of them got is freed when the other failed. *)
AllocateObjects ==
  /\ creating = "objects"
  /\ \/ device' = {"device", "impl"} /\ creating' = "open" /\ UNCHANGED status
     \/ Refused("OUT_OF_MEMORY") /\ UNCHANGED device
  /\ UNCHANGED <<library, buffers>>

(* cuDeviceGet and cuCtxCreate. *)
OpenContext ==
  /\ creating = "open"
  /\ \/ Created(CudaDevice)
     \/ Refused("DEVICE") /\ device' = {}
  /\ UNCHANGED <<library, buffers>>

Creating ==
  CreateCpu \/ LoadLibrary \/ Initialise \/ AllocateObjects \/ OpenContext

-----------------------------------------------------------------------------
(* hexir_buffer_allocate, of a size that is not 0. *)
Allocate(buffer) ==
  /\ \/ buffers' = buffers \cup {buffer} /\ status' = "OK"
     \/ status' = "OUT_OF_MEMORY" /\ UNCHANGED buffers
  /\ UNCHANGED <<library, creating, device>>

(* A write, a read or a wait: on CUDA the driver may refuse it. *)
Transfer(kind) ==
  /\ status' \in IF kind = "cpu" THEN {"OK"} ELSE {"OK", "DEVICE"}
  /\ UNCHANGED <<library, creating, device, buffers>>

(* hexir_buffer_release does nothing with NULL. *)
ReleaseBuffers(released) ==
  /\ buffers' = buffers \ released
  /\ UNCHANGED <<library, creating, status, device>>

(* hexir_device_release: the context, then both objects. *)
ReleaseDevice ==
  /\ device' = {}
  /\ UNCHANGED <<library, creating, status, buffers>>

DeviceInit ==
  library = "unopened" /\ creating = "idle" /\ status = "OK" /\ device = {} /\ buffers = {}

DeviceTypeOK(names) ==
  /\ library \in {"unopened", "open", "failed"}
  /\ creating \in {"idle", "cpu", "load", "init", "objects", "open"}
  /\ device \subseteq CudaDevice
  /\ buffers \subseteq names

(* Every buffer belongs to a device that is still open: its memory is freed
   through the vtable of the device and in the context of the device. *)
BuffersHaveADevice == buffers # {} => device \in {CpuDevice, CudaDevice}
=============================================================================
