SPECIFICATION Spec
CHECK_DEADLOCK FALSE
CONSTANTS
  Ticks = {t1, t2}
  Photos = {a1, a2}
  Singles = {s}
  Messages = {m1, m2}
  Texts = {"a"}
  Dbs = {db}
  Config = {env}
  Home = {soul}
  Jobs = {j1}
  Updates = {r1, r2}
  Dry = {r2}
  Services = {core, m}
  NewDeps = {2}
  Broken = {}
  Sessions = {"s1", "s2"}
  Pids = {7}
  Speakers = {a}
  Diars = {d}
  Asks = {k}
  Ttys = {"t1", "t2"}
  Keys = {"k", "h"}
  Twins = {"k", "h"}
  Launches = {"l1"}
  Subjects = {s1, s2}
  Dongles = {d1, d2}
  NoBody = NoBody
  Notices = {n1}
  Notes = {note}
  Panes = {"s1"}
  Dirs = {"r/a", "r/b"}
INVARIANTS TypesOK OnceAndWhole
PROPERTY DecisionsStand
