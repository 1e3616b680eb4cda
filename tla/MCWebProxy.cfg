SPECIFICATION Spec
CONSTANTS
    Hosts = {h1}
    Base = base
    Users = {u1}
    Tabs = {t1}
    MaxLogins = 2
    MaxEvents = 1
INVARIANT CallbackWorks
CHECK_DEADLOCK FALSE
