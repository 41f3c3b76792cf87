---------------------------- MODULE AymToolPlans ----------------------------
(***************************************************************************)
(* What a command that nobody disturbs knows at each stage of its plan:    *)
(* the vocabulary of the proof that it succeeds, and fails, as it should.  *)
(***************************************************************************)
EXTENDS AymTool

(* The stages by what they do: those that read the verified lock, those of *)
(* a copy and those of the imports.                                        *)
Reading == {"verify", "prepare", "doctor", "doctor again", "doctor last"}
CopyStages == {"seed", "uncache", "make dirs", "create file", "fill file"}
ImportStages == {"import", "find module"}

(* What a command may know at some point of its plan: its workspace and    *)
(* the manifest its child has read are the one on disk, the lock was       *)
(* emptied, it is the lock of the manifest, every locked package is in     *)
(* repository and cache (or about to be copied), its copy is whole, and,   *)
(* for add: the manifest is the one it began with, the edit of it is       *)
(* ready, the file is cut, the file is the edit.                           *)
Facts == {"loaded", "read", "emptied", "locked", "stored", "copied",
          "based", "edited", "cut", "added"}

Whole(k, rp, ca) == rp[k] # 0 /\ ca[k].part = "whole" /\ ca[k].of = rp[k]
InStore(k, rp, ca) == rp[k] # 0 /\ ca[k].part # "none"
LockedTo(m, l) == Valid(m) /\ Resolvable(m.deps) /\ l = LockText(m)
Edited(r) == Upsert(r.base, r.cmd.dep, r.cmd.req)

Known(r, m, l, rp, ca) ==
  {f \in Facts :
    /\ f = "loaded" => Valid(m) /\ r.ws = m
    /\ f = "read" => Valid(m) /\ r.seen = m
    /\ f = "emptied" => l.state = "empty"
    /\ f = "locked" => LockedTo(m, l)
    /\ f = "stored" =>
         \A d \in DOMAIN l.deps :
           InStore(Package(d, l.deps), rp, ca) \/ Package(d, l.deps) \in Range(r.pkgs)
    /\ f = "copied" =>
         \A d \in DOMAIN l.deps :
           Whole(Package(d, l.deps), rp, ca) \/ Package(d, l.deps) \in Range(r.pkgs)
    /\ f = "based" => m = r.base
    /\ f = "edited" => r.seen = Edited(r)
    /\ f = "cut" => ~m.package
    /\ f = "added" => m = Edited(r)}

FileWrites == {"truncate manifest", "write manifest"}
LockWrites == {"truncate lock", "write lock"}

(* What a stage that succeeds leaves behind, what it may make untrue, and  *)
(* what has to be known before it for the command to end well, or to fail  *)
(* for the right reason only.                                              *)
Gives(step) ==
  {f \in Facts :
    \/ f = "loaded" /\ step = "load"
    \/ f = "read" /\ step = "read"
    \/ f = "emptied" /\ step = "truncate lock"
    \/ f = "locked" /\ step \in {"write lock", "check lock"} \cup Reading
    \/ f = "stored" /\ step \in Reading \ {"verify"}
    \/ f = "copied" /\ step = "prepare"
    \/ f = "edited" /\ step = "upsert"
    \/ f = "cut" /\ step = "truncate manifest"
    \/ f = "added" /\ step = "write manifest"}

Spoils(step) ==
  {f \in Facts :
    \/ step \in DoctorSteps /\ f # "loaded"
    \/ f = "loaded" /\ step \in FileWrites
    \/ f = "read" /\ step \in FileWrites \cup {"upsert"}
    \/ f = "emptied" /\ step \in LockWrites
    \/ f = "locked" /\ step \in FileWrites \cup LockWrites
    \/ f = "stored" /\ step \in LockWrites \cup ImportStages \cup {"clean", "compile"}
    \/ f = "copied" /\ step \in LockWrites \cup ImportStages \cup {"clean", "compile"}
    \/ f = "based" /\ step \in FileWrites
    \/ f = "edited" /\ step \in {"read", "import"}
    \/ f = "cut" /\ step \in FileWrites
    \/ f = "added" /\ step \in FileWrites}

Needs(c, step) ==
  {f \in Facts :
    \/ f = "loaded" /\ step \in Reading \cup {"compile"}
    \/ f = "read" /\ step \in {"write lock", "check lock"}
    \/ f = "emptied" /\ step = "write lock"
    \/ f = "locked" /\ \/ step = "compile"
                       \/ step = "end" /\ c.name # "cache clean"
                       \/ step \in {"check lock"} \cup (Reading \ {"doctor"}) /\ Mends(c)
                       \/ step = "doctor" /\ Mends(c) /\ ~c.fix
    \/ f = "stored" /\ \/ step = "doctor last"
                       \/ step \in {"doctor", "doctor again"} /\ Mends(c) /\ ~c.fix
                       \/ step = "end" /\ c.name \in {"cache doctor", "cache sync", "add"}
    \/ f = "copied" /\ step = "compile"
    \/ f = "based" /\ step = "upsert"
    \/ f = "edited" /\ step = "write manifest"
    \/ f = "cut" /\ step = "write manifest"
    \/ f = "added" /\ step = "end" /\ c.name = "add"}

Nth(s, i) == IF i <= Len(s) THEN s[i] ELSE "end"
After(K, step) == (K \ Spoils(step)) \cup Gives(step)

(* A plan is good when each fact a stage needs is known at the start or    *)
(* given by an earlier stage, and not spoilt in between.                   *)
Comes(f, K, s, i) ==
  \E j \in 0..(i - 1) :
    /\ j = 0 => f \in K
    /\ j # 0 => f \in Gives(s[j])
    /\ \A k \in (j + 1)..(i - 1) : f \notin Spoils(s[k])

Good(c, K, s) ==
  \A i \in 1..(Len(s) + 1) : \A f \in Needs(c, Nth(s, i)) : Comes(f, K, s, i)

(* Between copies and imports a plan consists of plain stages; only a      *)
(* build compiles, and last.                                               *)
PlainStages == Stages \ (CopyStages \cup ImportStages)
CompileLast(c, s) == \A i \in 1..Len(s) : s[i] = "compile" => i = Len(s) /\ c.name = "build"
Sane(c, K, s) == s \in Seq(PlainStages) /\ CompileLast(c, s) /\ Good(c, K, s)

(* What is left of the copies, and of the imports, o stages into a         *)
(* package.                                                                *)
CopyLeft(n, o) == [i \in 1..(5 * n - o) |-> CopyAll(n)[o + i]]
Copies(n, o, s) == CopyLeft(n, o) \o s
ImportLeft(n, o) == [i \in 1..(2 * n - o) |-> ImportAll(n)[o + i]]

(* Where an undisturbed command may be: between stages, within the copies, *)
(* or within the imports of the compiler.                                  *)
Resting(r, s) == r.plan = s /\ r.pkgs = << >> /\ r.used = {}

Copying(r, s, rp, ca) ==
  /\ r.used = {}
  /\ r.pkgs # << >> /\ r.pkgs \in Seq(Packages)
  /\ \E o \in 0..4 :
       /\ r.plan = Copies(Len(r.pkgs), o, s)
       /\ o >= 1 => rp[Head(r.pkgs)] # 0
       /\ o = 3 => ca[Head(r.pkgs)].part # "none"
       /\ o = 4 => ca[Head(r.pkgs)].part = "torn"

Importing(r, s, m, l, rp, ca) ==
  /\ s = << >> /\ r.cmd.name = "build"
  /\ Valid(m) /\ r.ws = m /\ LockedTo(m, l)
  /\ \A d \in DOMAIN l.deps : Whole(Package(d, l.deps), rp, ca)
  /\ r.pkgs \in Seq({<<d>> : d \in DOMAIN m.deps})
  /\ \E o \in 0..1 :
       /\ r.plan = ImportLeft(Len(r.pkgs), o)
       /\ o = 1 => r.seen = m /\ r.pkgs # << >>
  /\ \A u \in r.used :
       /\ \E d \in DOMAIN m.deps : u.pkg = Package(d, m.deps)
       /\ u.part = "whole" /\ u.of = rp[u.pkg]

(* The plan left is good for what is known now.                            *)
Sound(r, m, l, rp, ca) ==
  \E s :
    /\ Sane(r.cmd, Known(r, m, l, rp, ca), s)
    /\ Resting(r, s) \/ Copying(r, s, rp, ca) \/ Importing(r, s, m, l, rp, ca)
=============================================================================
