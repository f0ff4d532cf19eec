SPECIFICATION FairSpec
CONSTANTS
    SCREEN_WIDTH = 640
    SCREEN_HEIGHT = 480
    BALL_RADIUS = 20
    RADIUS = 16
    StartX = 320
    StartY = 240
    SpeedX = 3
    SpeedY = 2
INVARIANTS DiscOnScreen Fresh
PROPERTY Bounces
