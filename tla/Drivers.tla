------------------------------ MODULE Drivers ------------------------------
(***************************************************************************)
(* The init and exit functions of the drivers under examples/, as tables.   *)
(*                                                                          *)
(* An init function is a sequence of steps.  A step acquires a resource     *)
(* (get, or None for a call that only configures or looks up something) and *)
(* when it fails releases the resources of undo, in that order: the goto    *)
(* label it jumps to and everything below it.  The failure of a step whose  *)
(* result is not checked is ignored, and some calls return nothing.  A step *)
(* may need resources that earlier steps may have failed to get.  An exit   *)
(* function is the sequence of resources that it releases; releasing what   *)
(* an unchecked step has failed to get does nothing.                        *)
(*                                                                          *)
(* Where the code has several builds, chosen by the kernel version, the     *)
(* table takes the build as a parameter.                                    *)
(***************************************************************************)
EXTENDS Discipline

(* The tail of a goto ladder that starts at its k-th label.                 *)
From(ladder, k) == SubSeq(ladder, k, Len(ladder))

Call(get, undo, failure, needs) ==
    [get |-> get, undo |-> undo, failure |-> failure, needs |-> needs]

Step(get, undo)         == Call(get, undo, "unwinds", {})
Check(undo)             == Step(None, undo)
CheckGot(needs, undo)   == Call(None, undo, "unwinds", needs)
Unchecked(get)          == Call(get, <<>>, "ignored", {})
UncheckedIn(get, where) == Call(get, <<>>, "ignored", {where})
Always(get)             == Call(get, <<>>, "never", {})

-----------------------------------------------------------------------------
(* The button drivers bottomhalf.c, intrpt.c and bh_threaded.c.  array:      *)
(* kernels before 6.10, with gpio_request_array.                             *)

(* Mutant: the labels of the two button lines are swapped.                   *)
ButtonLadderSwapped(array) ==
    IF array THEN <<"irq0", "buttons", "led">>
             ELSE <<"irq0", "button0", "button1", "led">>

(* What the labels of the ladder release, from the first label on.           *)
ButtonLadder(array) ==
    IF array THEN <<"irq0", "buttons", "led">>
             ELSE <<"irq0", "button1", "button0", "led">>

(* gpio_to_irq and request_irq of the first button and of the second.  In    *)
(* the array build the failure of the second gpio_to_irq jumps to the label  *)
(* below free_irq.                                                           *)
FirstIrq(array) ==
    LET ladder == ButtonLadder(array) IN
    << Check(From(ladder, 2)), Step("irq0", From(ladder, 2)) >>

SecondIrq(array) ==
    LET ladder == ButtonLadder(array) IN
    << Check(IF array THEN From(ladder, 2) ELSE ladder), Step("irq1", ladder) >>

(* bottomhalf.c and bh_threaded.c set the directions of the lines one by one *)
(* in the single-GPIO build; intrpt.c does not.                              *)
ButtonLines(array) ==
    LET ladder == ButtonLadder(array) IN
    IF array
    THEN << Step("led", <<>>), Step("buttons", From(ladder, 3)) >>
    ELSE << Step("led", <<>>), Check(From(ladder, 4)),
            Step("button0", From(ladder, 4)), Step("button1", From(ladder, 3)),
            Check(From(ladder, 2)), Check(From(ladder, 2)) >>

(* From the first request_irq on, a press of a button makes button_isr queue *)
(* bottomhalf_work: an entry that is there or not, and that no label and not *)
(* even bottomhalf_exit takes away, for nothing flushes or cancels the work. *)
bottomhalf_init(array) ==
    ButtonLines(array) \o FirstIrq(array) \o << Unchecked("work") >> \o SecondIrq(array)

(* Mutant: the lines are freed before the interrupts.                        *)
bottomhalf_exitLedFirst(array) ==
    IF array THEN <<"led", "buttons", "irq0", "irq1">>
             ELSE <<"led", "button0", "button1", "irq0", "irq1">>

bottomhalf_exit(array) ==
    IF array THEN <<"irq0", "irq1", "led", "buttons">>
             ELSE <<"irq0", "irq1", "led", "button0", "button1">>

bh_threaded_init(array) == ButtonLines(array) \o FirstIrq(array) \o SecondIrq(array)
bh_threaded_exit(array) == bottomhalf_exit(array)

intrpt_init(array) ==
    LET ladder == ButtonLadder(array) IN
    (IF array THEN ButtonLines(array)
              ELSE << Step("led", <<>>), Step("button0", From(ladder, 4)),
                      Step("button1", From(ladder, 3)) >>)
    \o FirstIrq(array) \o SecondIrq(array)

intrpt_exit(array) == bottomhalf_exit(array)

-----------------------------------------------------------------------------
(* led.c and dht11.c: character devices that are published first and get     *)
(* their GPIO line last.                                                     *)

GpioDevLadder == <<"gpio", "device", "class", "cdev", "region">>

led_init ==
    << Step("region", <<>>),
       Step("cdev", From(GpioDevLadder, 5)),
       Step("class", From(GpioDevLadder, 4)),
       Step("device", From(GpioDevLadder, 3)),
       Step("gpio", From(GpioDevLadder, 2)),
       Check(GpioDevLadder) >>

led_exit == GpioDevLadder

dht11_init ==
    << Step("region", <<>>),
       Step("cdev", From(GpioDevLadder, 5)),
       Step("class", From(GpioDevLadder, 4)),
       Step("device", From(GpioDevLadder, 3)),
       Step("gpio", From(GpioDevLadder, 2)),
       Check(GpioDevLadder) >>

dht11_exit == GpioDevLadder

-----------------------------------------------------------------------------
(* chardev.c, static_key.c and chardev2.c: device_create is not checked.     *)

chardev_init ==
    << Step("chrdev", <<>>), Step("class", <<"chrdev">>), Unchecked("device") >>

chardev_exit == <<"device", "class", "chrdev">>

static_key_init == chardev_init
static_key_exit == chardev_exit

chardev2_init == chardev_init
chardev2_exit == chardev_exit

(* Mutant: the device is published before its number is reserved.            *)
ioctl_initPublishFirst == << Step("cdev", <<>>), Step("region", <<"cdev">>) >>

ioctl_init == << Step("region", <<>>), Step("cdev", <<"region">>) >>
ioctl_exit == <<"cdev", "region">>

-----------------------------------------------------------------------------
(* blkram.c.  era: "5.10" (queue and disk are separate objects), "5.15" (one *)
(* object, add_disk returns nothing) or "5.16" (add_disk may fail).          *)

BlkramLadder(era) ==
    CASE era = "5.10" -> <<"queue", "tag_set", "data", "dev", "major">>
      [] era = "5.15" -> <<"tag_set", "data", "dev", "major">>
      [] era = "5.16" -> <<"disk", "tag_set", "data", "dev", "major">>

BlkramMemory(ladder, k) ==
    << Step("major", <<>>), Step("dev", From(ladder, k + 3)),
       Step("data", From(ladder, k + 2)), Step("tag_set", From(ladder, k + 1)) >>

(* Mutant: the failure of add_disk forgets put_disk.                         *)
blkram_initNoPut(era) ==
    LET ladder == BlkramLadder(era) IN
    CASE era = "5.10" -> BlkramMemory(ladder, 2)
             \o << Step("queue", From(ladder, 2)), Step("disk", ladder),
                   Always("added") >>
      [] era = "5.15" -> BlkramMemory(ladder, 1)
             \o << Step("disk", ladder), Always("added") >>
      [] era = "5.16" -> BlkramMemory(ladder, 2)
             \o << Step("disk", From(ladder, 2)), Step("added", From(ladder, 2)) >>

blkram_init(era) ==
    LET ladder == BlkramLadder(era) IN
    CASE era = "5.10" -> BlkramMemory(ladder, 2)
             \o << Step("queue", From(ladder, 2)), Step("disk", ladder),
                   Always("added") >>
      [] era = "5.15" -> BlkramMemory(ladder, 1)
             \o << Step("disk", ladder), Always("added") >>
      [] era = "5.16" -> BlkramMemory(ladder, 2)
             \o << Step("disk", From(ladder, 2)), Step("added", ladder) >>

blkram_exit(era) ==
    CASE era = "5.10" -> <<"added", "disk", "queue", "tag_set", "data", "dev", "major">>
      [] OTHER        -> <<"added", "disk", "tag_set", "data", "dev", "major">>

-----------------------------------------------------------------------------
vnetloop_init == << Step("netdev", <<>>), Step("registered", <<"netdev">>) >>
vnetloop_exit == <<"registered", "netdev">>

(* dma.c: platform_device_unregister is platform_device_del and _put.        *)
dma_demo_init ==
    << Step("pdev", <<>>), Step("added", <<"pdev">>),
       Step("driver", <<"added", "pdev">>) >>
dma_demo_exit == <<"driver", "added", "pdev">>

(* hello-sysfs.c: kobject_put removes the file with the directory.           *)
hello_sysfs_init == << Step("kobject", <<>>), Step("file", <<"kobject">>) >>
hello_sysfs_exit == <<"file", "kobject">>

(* The probe function of dma.c: what it allocates is managed, so that the   *)
(* driver core releases it, last things first, when the function fails and  *)
(* when the device is removed.  The last step maps and unmaps a buffer.     *)
dma_demo_probe ==
    << Check(<<>>), Step("demo", <<>>), Step("coherent", <<"demo">>),
       Step("stream", <<"coherent", "demo">>),
       Check(<<"stream", "coherent", "demo">>) >>
dma_demo_devres == <<"stream", "coherent", "demo">>

(* devicemodel.c and devicetree.c.                                          *)
devicemodel_init == << Step("driver", <<>>) >>
devicemodel_exit == <<"driver">>

dt_init == << Step("driver", <<>>) >>
dt_exit == <<"driver">>

-----------------------------------------------------------------------------
(* Files in /proc and debugfs.  Nothing that debugfs returns is checked, and *)
(* nothing can be made in a directory that is not there.                     *)

sleep_init == << Step("proc", <<>>) >>
sleep_exit == <<"proc">>

procfs1_init == << Step("proc", <<>>) >>
procfs1_exit == <<"proc">>

procfs2_init == << Step("proc", <<>>) >>
procfs2_exit == <<"proc">>

procfs3_init == << Step("proc", <<>>) >>
procfs3_exit == <<"proc">>

procfs4_init == << Step("proc", <<>>) >>
procfs4_exit == <<"proc">>

hello_debugfs_init ==
    << Unchecked("dir"), UncheckedIn("value", "dir"), UncheckedIn("enabled", "dir") >>
hello_debugfs_exit == <<"enabled", "value", "dir">>

hello_debugfs_file_init ==
    << Unchecked("dir"), UncheckedIn("message", "dir"), UncheckedIn("blob", "dir") >>
hello_debugfs_file_exit == <<"blob", "message", "dir">>

-----------------------------------------------------------------------------
(* kmem_cache.c: two allocations that are checked together.                 *)

kmem_cache_example_init ==
    << Step("cache", <<>>), Unchecked("obj1"), Unchecked("obj2"),
       CheckGot({"obj1", "obj2"}, <<"obj1", "obj2", "cache">>) >>
kmem_cache_example_exit == <<"obj1", "obj2", "cache">>

(* Deferred work: the work, tasklet or timer that is queued is the entry to *)
(* its function, and flush_workqueue, tasklet_kill and timer_delete_sync    *)
(* wait for it.  kbleds.c queues its timer again every time.  bottomhalf.c, *)
(* above, has no such call.                                                 *)

sched_init == << Step("queue", <<>>), Always("work") >>
sched_exit == <<"work", "queue">>

example_tasklet_init == << Always("tasklet") >>
example_tasklet_exit == <<"tasklet">>

kbleds_init    == << Always("timer") >>
kbleds_cleanup == <<"timer">>

(* syscall-steal.c on the kernels on which it sets a probe instead of        *)
(* changing the table.                                                      *)
syscall_kprobe_start == << Step("kprobe", <<>>) >>
syscall_kprobe_end   == <<"kprobe">>

vinput_init == << Step("chrdev", <<>>), Step("class", <<"chrdev">>) >>
vinput_end  == <<"chrdev", "class">>

-----------------------------------------------------------------------------
(* A driver: its functions; the resources through which its handlers are     *)
(* reached; the resources the handlers use; whether releasing an entry waits *)
(* for running handlers (free_irq, remove_proc_entry, del_gendisk,           *)
(* unregister_netdev do, cdev_del and device_destroy do not); and whether    *)
(* the file_operations name an owner, so that an open file pins the module.  *)
(* remove_proc_entry waits for the calls in progress, open included, and     *)
(* closes the files that are still open: the comment of sleep_exit, which    *)
(* fears for the processes in waitq, is more cautious than that.             *)
Entry(init, exit, entries, uses, waits, owner) ==
    [init |-> init, exit |-> exit, entries |-> entries, uses |-> uses,
     waits |-> waits, owner |-> owner]

Irqs == {"irq0", "irq1"}

DriverTable ==
    [ bottomhalf_array  |-> Entry(bottomhalf_init(TRUE), bottomhalf_exit(TRUE),
                                  Irqs \cup {"work"}, {"led"}, TRUE, FALSE),
      bottomhalf_single |-> Entry(bottomhalf_init(FALSE), bottomhalf_exit(FALSE),
                                  Irqs \cup {"work"}, {"led"}, TRUE, FALSE),
      intrpt_array      |-> Entry(intrpt_init(TRUE), intrpt_exit(TRUE),
                                  Irqs, {"led"}, TRUE, FALSE),
      intrpt_single     |-> Entry(intrpt_init(FALSE), intrpt_exit(FALSE),
                                  Irqs, {"led"}, TRUE, FALSE),
      threaded_array    |-> Entry(bh_threaded_init(TRUE), bh_threaded_exit(TRUE),
                                  Irqs, {}, TRUE, FALSE),
      threaded_single   |-> Entry(bh_threaded_init(FALSE), bh_threaded_exit(FALSE),
                                  Irqs, {}, TRUE, FALSE),
      led_old           |-> Entry(led_init, led_exit, {"device"}, {"gpio"}, FALSE, TRUE),
      led_new           |-> Entry(led_init, led_exit, {"device"}, {"gpio"}, FALSE, FALSE),
      dht11             |-> Entry(dht11_init, dht11_exit, {"device"}, {"gpio"}, FALSE, TRUE),
      chardev           |-> Entry(chardev_init, chardev_exit, {"device"}, {"chrdev"}, FALSE, FALSE),
      chardev2          |-> Entry(chardev2_init, chardev2_exit, {"device"}, {"chrdev"}, FALSE, FALSE),
      static_key        |-> Entry(static_key_init, static_key_exit, {"device"}, {"chrdev"}, FALSE, TRUE),
      ioctl             |-> Entry(ioctl_init, ioctl_exit, {"cdev"}, {"region"}, FALSE, TRUE),
      blkram_510        |-> Entry(blkram_init("5.10"), blkram_exit("5.10"),
                                  {"added"}, {"queue", "tag_set", "data", "dev"}, TRUE, TRUE),
      blkram_515        |-> Entry(blkram_init("5.15"), blkram_exit("5.15"),
                                  {"added"}, {"disk", "tag_set", "data", "dev"}, TRUE, TRUE),
      blkram_516        |-> Entry(blkram_init("5.16"), blkram_exit("5.16"),
                                  {"added"}, {"disk", "tag_set", "data", "dev"}, TRUE, TRUE),
      vnetloop          |-> Entry(vnetloop_init, vnetloop_exit, {"registered"}, {"netdev"}, TRUE, FALSE),
      dma_demo          |-> Entry(dma_demo_init, dma_demo_exit, {"driver"}, {"pdev"}, TRUE, FALSE),
      hello_sysfs       |-> Entry(hello_sysfs_init, hello_sysfs_exit, {"file"}, {}, TRUE, FALSE),
      dma_probe         |-> Entry(dma_demo_probe, dma_demo_devres, {}, {}, TRUE, FALSE),
      devicemodel       |-> Entry(devicemodel_init, devicemodel_exit, {"driver"}, {}, TRUE, FALSE),
      devicetree        |-> Entry(dt_init, dt_exit, {"driver"}, {}, TRUE, FALSE),
      procfs1           |-> Entry(procfs1_init, procfs1_exit, {"proc"}, {}, TRUE, FALSE),
      procfs2           |-> Entry(procfs2_init, procfs2_exit, {"proc"}, {}, TRUE, FALSE),
      procfs3           |-> Entry(procfs3_init, procfs3_exit, {"proc"}, {}, TRUE, FALSE),
      procfs4           |-> Entry(procfs4_init, procfs4_exit, {"proc"}, {}, TRUE, FALSE),
      debugfs           |-> Entry(hello_debugfs_init, hello_debugfs_exit,
                                  {"value", "enabled"}, {"dir"}, TRUE, FALSE),
      debugfs_file      |-> Entry(hello_debugfs_file_init, hello_debugfs_file_exit,
                                  {"message", "blob"}, {"dir"}, TRUE, TRUE),
      kmem_cache        |-> Entry(kmem_cache_example_init, kmem_cache_example_exit,
                                  {}, {}, TRUE, FALSE),
      sched             |-> Entry(sched_init, sched_exit, {"work"}, {"queue"}, TRUE, FALSE),
      tasklet           |-> Entry(example_tasklet_init, example_tasklet_exit,
                                  {"tasklet"}, {}, TRUE, FALSE),
      kbleds            |-> Entry(kbleds_init, kbleds_cleanup, {"timer"}, {}, TRUE, FALSE),
      syscall_kprobe    |-> Entry(syscall_kprobe_start, syscall_kprobe_end,
                                  {"kprobe"}, {}, TRUE, FALSE),
      sleep             |-> Entry(sleep_init, sleep_exit, {"proc"}, {}, TRUE, FALSE),
      vinput            |-> Entry(vinput_init, vinput_end, {"class"}, {}, TRUE, FALSE) ]

AllDrivers == DOMAIN DriverTable

(* The builds whose second gpio_to_irq jumps past free_irq when it fails.    *)
ArrayBuilds == {"bottomhalf_array", "intrpt_array", "threaded_array"}

(* The builds whose exit function leaves queued work behind.                 *)
Unflushed == {"bottomhalf_array", "bottomhalf_single"}

NotUnwound == ArrayBuilds \cup Unflushed

(* The drivers whose device can be opened before its GPIO line is there, or  *)
(* whose open file does not pin the module.                                  *)
EarlyPublished == {"led_old", "led_new", "dht11", "chardev", "chardev2"}
=============================================================================
